---- MODULE Spec2Model ----
(***************************************************************************)
(* Tsetlin Machine (notEloiir/tsetlin_machine_c): the dense machine        *)
(* (tsetlin_machine.c), the sparse machine (sparse_tsetlin_machine.c) and  *)
(* the binary model file they share.                                       *)
(*                                                                         *)
(* Conventions.                                                            *)
(*  - C arrays are functions over 0..n-1 with the C index arithmetic.      *)
(*  - int8_t / int16_t stores go through Int8 / Int16 (two's complement    *)
(*    wrap-around, what gcc and clang do on narrowing).                    *)
(*  - prng_next_float returns m / 2^23 for the 23-bit mantissa m = x >> 9. *)
(*    A draw is represented by its mantissa m, a float probability by the  *)
(*    fraction [num, den] (den = 0: +inf or -inf by the sign of num), and  *)
(*    "draw <= p" is the exact comparison m * den <= num * 2^23.           *)
(*  - xorshift32 has one cycle through all non-zero states, so every       *)
(*    mantissa and every non-zero u32 is emitted for some seed: the draws  *)
(*    of an operation are inputs, given to it as the sequence d, consumed  *)
(*    from the head in the order of the calls in the C code.               *)
(*  - linked lists are sequences of nodes; a node pointer is the node's    *)
(*    index in the sequence, NULL is 0.                                    *)
(***************************************************************************)
EXTENDS Integers, Sequences, FiniteSets, TLC

VARIABLES
    tm,        \* struct TsetlinMachine (dense), or NoMachine
    stm,       \* struct SparseTsetlinMachine, or NoMachine
    sltm,      \* struct StatelessTsetlinMachine, or NoMachine
    loaded,    \* the dense machine tm_load returned, or NoMachine
    file,      \* the bytes of the model file on disk (<<>>: no file)
    fb,        \* position inside the train call: the row and the feedback loop
    rows,      \* rows of training completed so far
    pred,      \* what the last predict calls wrote: X and y_pred per machine
    call       \* the arguments of the last direct call of an evaluator

vars == <<tm, stm, sltm, loaded, file, fb, rows, pred, call>>

-----------------------------------------------------------------------------
(* Bounds of the exploration *)

MaxRows == 2

-----------------------------------------------------------------------------
(* Machine integers *)

SHRT_MAX == 32767
SHRT_MIN == -32768
MANTISSA == 8388608

Int8(x) == ((x + 128) % 256) - 128
Int16(x) == ((x + 32768) % 65536) - 32768
UInt8(x) == x % 256

\* C integer division by a positive divisor: truncation toward zero
CDiv(a, b) == IF a >= 0 THEN a \div b ELSE -((-a) \div b)

min(a, b) == IF a < b THEN a ELSE b

clip(x, threshold) ==
    IF x > threshold THEN threshold
    ELSE IF x < -threshold THEN -threshold
    ELSE x

Bool(b) == IF b THEN 1 ELSE 0

\* float comparison  (q * draw) <= p  for an int q and the draw m / 2^23,
\* qm = q * m:  qm / 2^23 <= num / den  iff  qm <= floor(num * 2^23 / den)
FloatLE(qm, p) ==
    IF p.den = 0 THEN p.num > 0
    ELSE qm <= (p.num * MANTISSA) \div p.den

Prob(n, d) == [num |-> n, den |-> d]

\* the draws an operation may consume: 0.0 and the largest float below 1.
\* 0.0 <= p for every p >= 0, the largest float <= p only for p >= 1: between
\* them they give every outcome a comparison draw <= p can have.
FloatDraws == {0, 8388607}
\* prng_next_uint32 never returns 0 (the state stays non-zero)
U32Draws == {1, 2, 3, 4}

Draws(n) == [1..n -> FloatDraws]

-----------------------------------------------------------------------------
(* Dense machine: tsetlin_machine.c *)

NoMachine == [null |-> TRUE]

NoFeedback == [phase |-> "idle"]

\* Translates automaton state to action - 0 or 1
action(state, mid_state) == Bool(state >= mid_state)

TaIdx(m, clause_id, literal_id, p) == (((clause_id * m.num_literals) + literal_id) * 2) + p
WIdx(m, clause_id, class_id) == (clause_id * m.num_classes) + class_id

\* an initializer whose second coin outcome leaves both TAs at mid_state
tm_initialize_both_mid(m, d) ==
    LET mid == Int8(CDiv(m.max_state + m.min_state, 2))
        K == m.num_clauses
        L == m.num_literals
        C == m.num_classes
        coin(k, l) == FloatLE(d[(k * L) + l + 1], Prob(1, 2))
        wcoin(k, c) == FloatLE(d[(K * L) + (k * C) + c + 1], Prob(1, 2))
    IN [m EXCEPT
          !.mid_state = mid,
          !.s_inv = Prob(1, m.s),
          !.s_min1_inv = Prob(m.s - 1, m.s),
          !.ta_state = [i \in 0..(K * L * 2 - 1) |->
               LET k == i \div (2 * L)
                   l == (i % (2 * L)) \div 2
                   p == i % 2
               IN IF coin(k, l)
                  THEN (IF p = 0 THEN Int8(mid - 1) ELSE mid)
                  ELSE mid],
          !.weights = [i \in 0..(K * C - 1) |->
               1 - 2 * Bool(wcoin(i \div C, i % C))]]

\* tm_initialize: mid_state, s_inv, s_min1_inv, the coin flips
tm_initialize(m, d) ==
    LET mid == Int8(CDiv(m.max_state + m.min_state, 2))
        K == m.num_clauses
        L == m.num_literals
        C == m.num_classes
        coin(k, l) == FloatLE(d[(k * L) + l + 1], Prob(1, 2))
        wcoin(k, c) == FloatLE(d[(K * L) + (k * C) + c + 1], Prob(1, 2))
    IN [m EXCEPT
          !.mid_state = mid,
          !.s_inv = Prob(1, m.s),
          !.s_min1_inv = Prob(m.s - 1, m.s),
          !.ta_state = [i \in 0..(K * L * 2 - 1) |->
               LET k == i \div (2 * L)
                   l == (i % (2 * L)) \div 2
                   p == i % 2
               IN IF coin(k, l)
                  THEN (IF p = 0 THEN Int8(mid - 1) ELSE mid)
                  ELSE (IF p = 0 THEN mid ELSE Int8(mid - 1))],
          !.weights = [i \in 0..(K * C - 1) |->
               1 - 2 * Bool(wcoin(i \div C, i % C))]]

\* number of draws tm_initialize consumes
InitDraws(h) == (h.num_clauses * h.num_literals) + (h.num_clauses * h.num_classes)

\* tm_create: fill in the fields, then tm_initialize.  clause_output and votes
\* are malloc'ed and not written; nothing reads them before
\* calculate_clause_output and sum_votes write them, they are shown as 0.
tm_create(h, d) ==
    tm_initialize(
        [num_classes |-> h.num_classes, threshold |-> h.threshold,
         num_literals |-> h.num_literals, num_clauses |-> h.num_clauses,
         max_state |-> h.max_state, min_state |-> h.min_state,
         boost_true_positive_feedback |-> h.boost_true_positive_feedback,
         s |-> h.s, y_size |-> h.y_size,
         output_activation |-> "class_idx",
         calculate_feedback |-> "class_idx",
         mid_state |-> 0, s_inv |-> Prob(0, 1), s_min1_inv |-> Prob(0, 1),
         ta_state |-> <<>>, weights |-> <<>>,
         clause_output |-> [k \in 0..(h.num_clauses - 1) |-> 0],
         votes |-> [c \in 0..(h.num_classes - 1) |-> 0]],
        d)

\* the literal loop of calculate_clause_output for one clause, with its break
RECURSIVE clause_loop(_, _, _, _, _)
clause_loop(m, Xr, clause_id, literal_id, empty_clause) ==
    IF literal_id >= m.num_literals
    THEN [output |-> 1, empty_clause |-> empty_clause]
    ELSE LET action_include ==
                 action(m.ta_state[TaIdx(m, clause_id, literal_id, 0)], m.mid_state)
             action_include_negated ==
                 action(m.ta_state[TaIdx(m, clause_id, literal_id, 1)], m.mid_state)
             e == empty_clause /\ ~(action_include = 1 \/ action_include_negated = 1)
         IN IF (action_include = 1 /\ Xr[literal_id] = 0)
               \/ (action_include_negated = 1 /\ Xr[literal_id] = 1)
            THEN [output |-> 0, empty_clause |-> e]
            ELSE clause_loop(m, Xr, clause_id, literal_id + 1, e)

\* an evaluator that never zeroes an empty clause
clause_output_keep_empty(m, Xr, skip_empty) ==
    [m EXCEPT !.clause_output = [clause_id \in 0..(m.num_clauses - 1) |->
        clause_loop(m, Xr, clause_id, 0, TRUE).output]]

calculate_clause_output(m, Xr, skip_empty) ==
    [m EXCEPT !.clause_output = [clause_id \in 0..(m.num_clauses - 1) |->
        LET r == clause_loop(m, Xr, clause_id, 0, TRUE)
        IN IF r.empty_clause /\ skip_empty = 1 THEN 0 ELSE r.output]]

\* the accumulation loops of sum_votes
RECURSIVE votes_loop(_, _, _)
votes_loop(m, clause_id, votes) ==
    IF clause_id >= m.num_clauses THEN votes
    ELSE IF m.clause_output[clause_id] = 0
         THEN votes_loop(m, clause_id + 1, votes)
         ELSE votes_loop(m, clause_id + 1,
                  [class_id \in 0..(m.num_classes - 1) |->
                      votes[class_id] + m.weights[WIdx(m, clause_id, class_id)]])

\* a sum_votes without the final clip
sum_votes_unclipped(m) ==
    [m EXCEPT !.votes = votes_loop(m, 0, [class_id \in 0..(m.num_classes - 1) |-> 0])]

sum_votes(m) ==
    LET summed == votes_loop(m, 0, [class_id \in 0..(m.num_classes - 1) |-> 0])
    IN [m EXCEPT !.votes = [class_id \in 0..(m.num_classes - 1) |->
                               clip(summed[class_id], m.threshold)]]

\* a weight update that steps away from zero without the min() against the
\* int16 bounds
reinforce_unsaturated(w) == IF w >= 0 THEN Int16(w + 1) ELSE Int16(w - 1)

\* the weight update at the head of type_1a_feedback
reinforce_weight(w) ==
    IF w >= 0
    THEN Int16(w + min(1, SHRT_MAX - w))
    ELSE Int16(w - min(1, -(SHRT_MIN - w)))

\* a weight update that stops at zero
punish_toward_zero(w) == IF w > 0 THEN w - 1 ELSE IF w < 0 THEN w + 1 ELSE 0

\* the weight update at the head of type_2_feedback
punish_weight(w) == Int16(w + (IF w >= 0 THEN -1 ELSE 1))

\* ta_state[i] += min(max_state - ta_state[i], feedback_strength) * b
reward(m, state, b) == Int8(state + (min(m.max_state - state, 1) * b))
\* ta_state[i] -= min(-(min_state - ta_state[i]), feedback_strength) * b
punish(m, state, b) == Int8(state - (min(-(m.min_state - state), 1) * b))

\* the literal loop of type_1a_feedback; r = [ta, d]: the states and the
\* draws not yet consumed
RECURSIVE type_1a_loop(_, _, _, _, _)
type_1a_loop(m, Xr, clause_id, literal_id, r) ==
    IF literal_id >= m.num_literals THEN r
    ELSE LET i0 == TaIdx(m, clause_id, literal_id, 0)
             i1 == TaIdx(m, clause_id, literal_id, 1)
             boost == m.boost_true_positive_feedback = 1
         IN IF Xr[literal_id] = 1
            THEN LET b0 == Bool(boost \/ FloatLE(Head(r.d), m.s_min1_inv))
                     d1 == IF boost THEN r.d ELSE Tail(r.d)
                     b1 == Bool(FloatLE(Head(d1), m.s_inv))
                     ta0 == [r.ta EXCEPT ![i0] = reward(m, r.ta[i0], b0)]
                     ta1 == [ta0 EXCEPT ![i1] = punish(m, ta0[i1], b1)]
                 IN type_1a_loop(m, Xr, clause_id, literal_id + 1,
                                 [ta |-> ta1, d |-> Tail(d1)])
            ELSE LET b1 == Bool(FloatLE(Head(r.d), m.s_min1_inv))
                     d1 == Tail(r.d)
                     b0 == Bool(FloatLE(Head(d1), m.s_inv))
                     ta1 == [r.ta EXCEPT ![i1] = reward(m, r.ta[i1], b1)]
                     ta0 == [ta1 EXCEPT ![i0] = punish(m, ta1[i0], b0)]
                 IN type_1a_loop(m, Xr, clause_id, literal_id + 1,
                                 [ta |-> ta0, d |-> Tail(d1)])

\* the kernels return [m, d]: the machine and the draws left
type_1a_feedback(m, Xr, clause_id, class_id, d) ==
    LET wi == WIdx(m, clause_id, class_id)
        r == type_1a_loop(m, Xr, clause_id, 0, [ta |-> m.ta_state, d |-> d])
    IN [m |-> [m EXCEPT !.weights[wi] = reinforce_weight(m.weights[wi]),
                        !.ta_state = r.ta],
        d |-> r.d]

RECURSIVE type_1b_loop(_, _, _, _)
type_1b_loop(m, clause_id, literal_id, r) ==
    IF literal_id >= m.num_literals THEN r
    ELSE LET i0 == TaIdx(m, clause_id, literal_id, 0)
             i1 == TaIdx(m, clause_id, literal_id, 1)
             b0 == Bool(FloatLE(Head(r.d), m.s_inv))
             d1 == Tail(r.d)
             b1 == Bool(FloatLE(Head(d1), m.s_inv))
             ta0 == [r.ta EXCEPT ![i0] = punish(m, r.ta[i0], b0)]
             ta1 == [ta0 EXCEPT ![i1] = punish(m, ta0[i1], b1)]
         IN type_1b_loop(m, clause_id, literal_id + 1, [ta |-> ta1, d |-> Tail(d1)])

type_1b_feedback(m, clause_id, d) ==
    LET r == type_1b_loop(m, clause_id, 0, [ta |-> m.ta_state, d |-> d])
    IN [m |-> [m EXCEPT !.ta_state = r.ta], d |-> r.d]

\* a Type II that raises every excluded TA of the clause, whatever X is
type_2_raise_excluded(m, Xr, clause_id, literal_id, ta) ==
    [i \in DOMAIN ta |->
        IF i \in TaIdx(m, clause_id, 0, 0)..TaIdx(m, clause_id, m.num_literals - 1, 1)
        THEN reward(m, ta[i], Bool(0 = action(ta[i], m.mid_state)))
        ELSE ta[i]]

RECURSIVE type_2_loop(_, _, _, _, _)
type_2_loop(m, Xr, clause_id, literal_id, ta) ==
    IF literal_id >= m.num_literals THEN ta
    ELSE LET i0 == TaIdx(m, clause_id, literal_id, 0)
             i1 == TaIdx(m, clause_id, literal_id, 1)
             ta0 == [ta EXCEPT ![i0] = reward(m, ta[i0],
                        Bool(0 = action(ta[i0], m.mid_state) /\ 0 = Xr[literal_id]))]
             ta1 == [ta0 EXCEPT ![i1] = reward(m, ta0[i1],
                        Bool(0 = action(ta0[i1], m.mid_state) /\ 1 = Xr[literal_id]))]
         IN type_2_loop(m, Xr, clause_id, literal_id + 1, ta1)

\* a Type II that returns without touching the weight or the TAs
type_2_skipped(m, Xr, clause_id, class_id, d) == [m |-> m, d |-> d]

type_2_feedback(m, Xr, clause_id, class_id, d) ==
    LET wi == WIdx(m, clause_id, class_id)
    IN [m |-> [m EXCEPT !.weights[wi] = punish_weight(m.weights[wi]),
                        !.ta_state = type_2_loop(m, Xr, clause_id, 0, m.ta_state)],
        d |-> d]

\* [m, d, kernel]: kernel names the kernel the call dispatched to
Ran(r, kernel) == [m |-> r.m, d |-> r.d, kernel |-> kernel]

\* a dispatch that runs Type II whenever the vote sign differs from the class
\* sign, whatever the clause output
apply_feedback_always_acts(m, clause_id, class_id, is_class_positive, Xr, d) ==
    LET is_vote_positive == Bool(m.weights[WIdx(m, clause_id, class_id)] >= 0)
    IN IF is_vote_positive = is_class_positive
       THEN IF m.clause_output[clause_id] = 1
            THEN Ran(type_1a_feedback(m, Xr, clause_id, class_id, d), "1a")
            ELSE Ran(type_1b_feedback(m, clause_id, d), "1b")
       ELSE Ran(type_2_feedback(m, Xr, clause_id, class_id, d), "2")

tm_apply_feedback(m, clause_id, class_id, is_class_positive, Xr, d) ==
    LET is_vote_positive == Bool(m.weights[WIdx(m, clause_id, class_id)] >= 0)
    IN IF is_vote_positive = is_class_positive
       THEN IF m.clause_output[clause_id] = 1
            THEN Ran(type_1a_feedback(m, Xr, clause_id, class_id, d), "1a")
            ELSE Ran(type_1b_feedback(m, clause_id, d), "1b")
       ELSE IF m.clause_output[clause_id] = 1
            THEN Ran(type_2_feedback(m, Xr, clause_id, class_id, d), "2")
            ELSE [m |-> m, d |-> d, kernel |-> "none"]

-----------------------------------------------------------------------------
(* Class sampling and the feedback loops of tm_feedback_class_idx and
   tm_feedback_bin_vector.  cand[c] says whether class c is a candidate. *)

\* clip(votes[class_id], threshold) + threshold, summed over the candidates
RECURSIVE sum_votes_clipped(_, _, _)
sum_votes_clipped(m, cand, class_id) ==
    IF class_id >= m.num_classes THEN 0
    ELSE (IF cand[class_id] THEN clip(m.votes[class_id], m.threshold) + m.threshold ELSE 0)
         + sum_votes_clipped(m, cand, class_id + 1)

\* the cumulative scan: the first candidate whose running sum reaches the
\* draw; dflt is the value the class variable holds when no candidate does
RECURSIVE scan_class(_, _, _, _, _, _)
scan_class(m, cand, random_vote, class_id, accumulated_votes, dflt) ==
    IF class_id >= m.num_classes THEN dflt
    ELSE IF cand[class_id]
         THEN LET acc == accumulated_votes + clip(m.votes[class_id], m.threshold)
                                           + m.threshold
              IN IF acc >= random_vote THEN class_id
                 ELSE scan_class(m, cand, random_vote, class_id + 1, acc, dflt)
         ELSE scan_class(m, cand, random_vote, class_id + 1, accumulated_votes, dflt)

\* a choice among all the classes, candidates or not
pick_any_class(m, cand, u) ==
    LET all == [c \in 0..(m.num_classes - 1) |-> TRUE]
        total == sum_votes_clipped(m, all, 0)
    IN IF total = 0 THEN [skip |-> TRUE, class |-> 0]
       ELSE [skip |-> FALSE, class |-> scan_class(m, all, u % total, 0, 0, 0)]

\* [skip, class]: skip when the candidates' weights sum to zero (no draw is
\* consumed then), else the class picked with the u32 draw u
pick_class(m, cand, u) ==
    LET total == sum_votes_clipped(m, cand, 0)
    IN IF total = 0 THEN [skip |-> TRUE, class |-> 0]
       ELSE [skip |-> FALSE, class |-> scan_class(m, cand, u % total, 0, 0, 0)]

update_probability_positive(m, class_id) ==
    Prob(m.threshold - clip(m.votes[class_id], m.threshold), 2 * m.threshold)

update_probability_negative(m, class_id) ==
    Prob(clip(m.votes[class_id], m.threshold) + m.threshold, 2 * m.threshold)

\* negative candidates: class_idx: every class but the label; bin_vector: !label_arr[c]
negative_candidates(m, y) ==
    [c \in 0..(m.num_classes - 1) |->
        IF m.calculate_feedback = "class_idx" THEN c # y ELSE y[c] = 0]

positive_candidates(m, y) ==
    [c \in 0..(m.num_classes - 1) |-> y[c] # 0]

\* where the feedback function stands after calculate_clause_output and
\* sum_votes (kernel and drawn tell which kernel the last tm_apply_feedback
\* call ran and how many PRNG draws that call consumed, draws are the values
\* prng_next_float returned to the last dense kernel);
\* class_idx goes straight to the positive loop on the label;
\* bin_vector picks the positive class first and computes the update
\* probability from votes[negative_class], negative_class still being 0
begin_feedback(m, Xr, y, u) ==
    IF m.calculate_feedback = "class_idx"
    THEN [phase |-> "positive", X |-> Xr, y |-> y, clause_id |-> 0, class_id |-> y,
          p |-> update_probability_positive(m, y), kernel |-> "begin", drawn |-> 0, draws |-> <<>>]
    ELSE LET pk == pick_class(m, positive_candidates(m, y), u)
         IN IF pk.skip
            THEN [phase |-> "select_negative", X |-> Xr, y |-> y, clause_id |-> 0,
                  class_id |-> 0, p |-> Prob(0, 1), kernel |-> "begin", drawn |-> 0, draws |-> <<>>]
            ELSE [phase |-> "positive", X |-> Xr, y |-> y, clause_id |-> 0,
                  class_id |-> pk.class,
                  p |-> update_probability_positive(m, 0), kernel |-> "begin",
                  drawn |-> 0, draws |-> <<>>]

\* one iteration of a clause loop: the gate draw, then tm_apply_feedback
\* (kernel "skip": the gate kept tm_apply_feedback from being called)
clause_feedback(m, f, is_class_positive, d) ==
    IF FloatLE(Head(d), f.p)
    THEN tm_apply_feedback(m, f.clause_id, f.class_id, is_class_positive, f.X, Tail(d))
    ELSE [m |-> m, d |-> Tail(d), kernel |-> "skip"]

Labels(m) ==
    IF m.calculate_feedback = "class_idx" THEN 0..(m.num_classes - 1)
    ELSE [0..(m.num_classes - 1) -> {0, 1}]

Rows(m) == [0..(m.num_literals - 1) -> {0, 1}]

-----------------------------------------------------------------------------
(* Output activation and inference *)

RECURSIVE argmax_last(_, _, _, _)
argmax_last(m, class_id, best_class, max_class_score) ==
    IF class_id >= m.num_classes THEN best_class
    ELSE IF max_class_score <= m.votes[class_id]
         THEN argmax_last(m, class_id + 1, class_id, m.votes[class_id])
         ELSE argmax_last(m, class_id + 1, best_class, max_class_score)

RECURSIVE argmax_loop(_, _, _, _)
argmax_loop(m, class_id, best_class, max_class_score) ==
    IF class_id >= m.num_classes THEN best_class
    ELSE IF max_class_score < m.votes[class_id]
         THEN argmax_loop(m, class_id + 1, class_id, m.votes[class_id])
         ELSE argmax_loop(m, class_id + 1, best_class, max_class_score)

\* y_pred is a sequence of y_size elements; "exit" when y_size is refused
tm_oa_class_idx(m) ==
    IF m.y_size # 1 THEN "exit"
    ELSE <<argmax_loop(m, 1, 0, m.votes[0])>>

tm_oa_bin_vector_at_least(m) ==
    IF m.y_size # m.num_classes THEN "exit"
    ELSE [i \in 1..m.num_classes |-> Bool(m.votes[i - 1] >= m.mid_state)]

tm_oa_bin_vector(m) ==
    IF m.y_size # m.num_classes THEN "exit"
    ELSE [i \in 1..m.num_classes |-> Bool(m.votes[i - 1] > m.mid_state)]

output_activation(m) ==
    IF m.output_activation = "class_idx" THEN tm_oa_class_idx(m) ELSE tm_oa_bin_vector(m)

\* a predict that also steps the weights of the clauses that fired
tm_predict_reinforcing(m, Xr) ==
    LET r == sum_votes(calculate_clause_output(m, Xr, 1))
    IN [r EXCEPT !.weights = [i \in DOMAIN m.weights |->
           IF r.clause_output[i \div m.num_classes] = 1
           THEN reinforce_weight(m.weights[i])
           ELSE m.weights[i]]]

\* one row of tm_predict: the machine afterwards (clause_output, votes)
tm_predict(m, Xr) == sum_votes(calculate_clause_output(m, Xr, 1))

NoPred == [X |-> <<>>, y_pred |-> <<>>]
NoPreds == [tm |-> NoPred, stm |-> NoPred, sltm |-> NoPred]

NoCall == [op |-> "none"]

-----------------------------------------------------------------------------
(* The binary model file: tm_save, tm_load *)

U32LE(x) == <<x % 256, (x \div 256) % 256, (x \div 65536) % 256, (x \div 16777216) % 256>>
I16LE(x) == <<x % 256, (x \div 256) % 256>>
I8(x) == <<x % 256>>

ReadU32(b, at) == b[at] + (256 * b[at + 1]) + (65536 * b[at + 2]) + (16777216 * b[at + 3])
\* a 16-bit read without the sign
ReadU16(b, at) == b[at] + (256 * b[at + 1])
ReadI16(b, at) == Int16(b[at] + (256 * b[at + 1]))
ReadI8(b, at) == Int8(b[at])

RECURSIVE Log2(_)
Log2(n) == IF n <= 1 THEN 0 ELSE 1 + Log2(n \div 2)
RECURSIVE Pow2(_)
Pow2(n) == IF n = 0 THEN 1 ELSE 2 * Pow2(n - 1)

\* the IEEE-754 single-precision bits of s (s a non-negative integer below 2^24)
FloatBits(s) ==
    IF s = 0 THEN 0
    ELSE LET e == Log2(s)
         IN ((127 + e) * 8388608) + ((s - Pow2(e)) * Pow2(23 - e))

\* (float) of the double whose low and high 32-bit words are lo and hi.
\* Exponent field 0: zero or subnormal, below 2^-1022, which converts to 0.0f.
\* Otherwise the value of a double holding an integer in its top 20 mantissa
\* bits (lo = 0), which is what a producer that writes s as a double stores.
DoubleToFloat(lo, hi) ==
    LET expo == (hi \div 1048576) % 2048
    IN IF expo = 0 THEN 0
       ELSE LET e == expo - 1023
            IN Pow2(e) + (((hi % 1048576) * Pow2(e)) \div 1048576)

\* fwrite of an int16_t array / an int8_t array of n elements
RECURSIVE WriteI16s(_, _)
WriteI16s(arr, n) == IF n = 0 THEN <<>> ELSE WriteI16s(arr, n - 1) \o I16LE(arr[n - 1])
RECURSIVE WriteI8s(_, _)
WriteI8s(arr, n) == IF n = 0 THEN <<>> ELSE WriteI8s(arr, n - 1) \o I8(arr[n - 1])

\* tm_save: the header, the weights, the states.  fwrite(&tm->s, sizeof(double))
\* writes 8 bytes from the address of the 4-byte float s: the float, then the
\* 4 bytes that follow it in the struct, which hold y_size.
tm_save(m) ==
    U32LE(m.threshold) \o U32LE(m.num_literals) \o U32LE(m.num_clauses)
    \o U32LE(m.num_classes) \o I8(m.max_state) \o I8(m.min_state)
    \o I8(m.boost_true_positive_feedback)
    \o U32LE(FloatBits(m.s)) \o U32LE(m.y_size)
    \o WriteI16s(m.weights, m.num_clauses * m.num_classes)
    \o WriteI8s(m.ta_state, m.num_clauses * m.num_literals * 2)

HeaderLen == 27

\* the metadata of a model file, as tm_load and stm_load_dense read it
read_header(b, y_size) ==
    [threshold |-> ReadU32(b, 1), num_literals |-> ReadU32(b, 5),
     num_clauses |-> ReadU32(b, 9), num_classes |-> ReadU32(b, 13),
     max_state |-> ReadI8(b, 17), min_state |-> ReadI8(b, 18),
     boost_true_positive_feedback |-> b[19],
     s |-> DoubleToFloat(ReadU32(b, 20), ReadU32(b, 24)),
     y_size |-> y_size]

\* tm_load: NoMachine (NULL) when the file is missing or short
tm_load(b, y_size) ==
    IF Len(b) < HeaderLen THEN NoMachine
    ELSE LET h == read_header(b, y_size)
             nw == h.num_clauses * h.num_classes
             ns == h.num_clauses * h.num_literals * 2
             created == tm_create(h, [i \in 1..InitDraws(h) |-> 0])
         IN IF Len(b) < HeaderLen + (2 * nw) + ns THEN NoMachine
            ELSE [created EXCEPT
                    !.weights = [i \in 0..(nw - 1) |-> ReadI16(b, HeaderLen + (2 * i) + 1)],
                    !.ta_state = [i \in 0..(ns - 1) |->
                                     ReadI8(b, HeaderLen + (2 * nw) + i + 1)]]

-----------------------------------------------------------------------------
(* Sparse machine: sparse_tsetlin_machine.c.  The functions that share a
   name with the dense ones carry the prefix stm_ here. *)

Node(ta_id, ta_state) == [ta_id |-> ta_id, ta_state |-> ta_state]

\* p->next
NextPtr(list, p) == IF p < Len(list) THEN p + 1 ELSE 0

\* an insert that ignores prev and always makes the new node the head
insert_at_head(list, prev, ta_id, ta_state) ==
    [list |-> <<Node(ta_id, Int8(UInt8(ta_state)))>> \o list, result |-> 1]

\* an insert that puts the new node before prev
insert_before_prev(list, prev, ta_id, ta_state) ==
    LET node == Node(ta_id, Int8(UInt8(ta_state)))
        at == IF prev = 0 THEN 0 ELSE prev - 1
    IN [list |-> SubSeq(list, 1, at) \o <<node>> \o SubSeq(list, at + 1, Len(list)),
        result |-> at + 1]

\* ta_state_insert(head_ptr, prev, ta_id, ta_state, result): the list and
\* *result afterwards.  The state travels through a uint8_t parameter into
\* the int8_t field of the node.
ta_state_insert(list, prev, ta_id, ta_state) ==
    LET node == Node(ta_id, Int8(UInt8(ta_state)))
    IN IF Len(list) = 0 THEN [list |-> <<node>>, result |-> 1]
       ELSE IF prev = 0 THEN [list |-> <<node>> \o list, result |-> 1]
       ELSE [list |-> SubSeq(list, 1, prev) \o <<node>>
                      \o SubSeq(list, prev + 1, Len(list)),
             result |-> prev + 1]

\* a remove that unlinks prev itself (the head when prev is NULL)
remove_at_prev(list, prev, result) ==
    IF Len(list) = 0 THEN [list |-> list, result |-> result]
    ELSE LET at == IF prev = 0 THEN 1 ELSE prev
             new == SubSeq(list, 1, at - 1) \o SubSeq(list, at + 1, Len(list))
         IN [list |-> new, result |-> IF at <= Len(new) THEN at ELSE 0]

\* ta_state_remove(head_ptr, prev, result): removes the node after prev (the
\* head when prev is NULL); result is what *result held before the call
ta_state_remove(list, prev, result) ==
    IF Len(list) = 0 THEN [list |-> list, result |-> result]
    ELSE IF prev # 0 /\ NextPtr(list, prev) = 0 THEN [list |-> list, result |-> result]
    ELSE LET new == SubSeq(list, 1, prev) \o SubSeq(list, prev + 2, Len(list))
         IN [list |-> new, result |-> IF prev + 1 <= Len(new) THEN prev + 1 ELSE 0]

Head0(list) == IF Len(list) = 0 THEN 0 ELSE 1

\* stm_initialize: the derived fields, no active literal, the weight coin
\* flips.  sparse_min_state and sparse_init_state are int8_t fields.
stm_initialize(m, d) ==
    LET mid == Int8(CDiv(m.max_state + m.min_state, 2))
        smin == Int8(mid - 40)
        C == m.num_classes
    IN [m EXCEPT
          !.mid_state = mid,
          !.sparse_min_state = smin,
          !.sparse_init_state = Int8(smin + 5),
          !.s_inv = Prob(1, m.s),
          !.s_min1_inv = Prob(m.s - 1, m.s),
          !.active_literals = [i \in 0..((C * m.al_row_size) - 1) |-> 0],
          !.weights = [i \in 0..((m.num_clauses * C) - 1) |->
               1 - 2 * Bool(FloatLE(d[i + 1], Prob(1, 2)))]]

\* number of draws stm_initialize consumes
StmInitDraws(h) == h.num_clauses * h.num_classes

\* stm_create: every clause list NULL, then stm_initialize
stm_create(h, d) ==
    stm_initialize(
        [num_classes |-> h.num_classes, threshold |-> h.threshold,
         num_literals |-> h.num_literals, num_clauses |-> h.num_clauses,
         max_state |-> h.max_state, min_state |-> h.min_state,
         boost_true_positive_feedback |-> h.boost_true_positive_feedback,
         s |-> h.s, y_size |-> h.y_size,
         output_activation |-> "class_idx",
         calculate_feedback |-> "class_idx",
         ta_state |-> [k \in 0..(h.num_clauses - 1) |-> <<>>],
         al_row_size |-> UInt8(((h.num_literals - 1) \div 8) + 1),
         mid_state |-> 0, sparse_min_state |-> 0, sparse_init_state |-> 0,
         s_inv |-> Prob(0, 1), s_min1_inv |-> Prob(0, 1),
         active_literals |-> <<>>, weights |-> <<>>,
         clause_output |-> [k \in 0..(h.num_clauses - 1) |-> 0],
         votes |-> [c \in 0..(h.num_classes - 1) |-> 0]],
        d)

\* the list walk of the sparse calculate_clause_output, with its break
RECURSIVE stm_clause_loop(_, _, _, _, _)
stm_clause_loop(m, Xr, list, curr_ptr, empty_clause) ==
    IF curr_ptr = 0 THEN [output |-> 1, empty_clause |-> empty_clause]
    ELSE LET n == list[curr_ptr]
         IN IF action(n.ta_state, m.mid_state) = 1
            THEN IF n.ta_id % 2 = Xr[n.ta_id \div 2]
                 THEN [output |-> 0, empty_clause |-> FALSE]
                 ELSE stm_clause_loop(m, Xr, list, NextPtr(list, curr_ptr), FALSE)
            ELSE stm_clause_loop(m, Xr, list, NextPtr(list, curr_ptr), empty_clause)

\* a sparse evaluator that takes every materialized TA for an included one
stm_clause_output_every_node(m, Xr, skip_empty) ==
    [m EXCEPT !.clause_output = [clause_id \in 0..(m.num_clauses - 1) |->
        LET list == m.ta_state[clause_id]
        IN IF Len(list) = 0 THEN (IF skip_empty = 1 THEN 0 ELSE 1)
           ELSE IF \E j \in 1..Len(list) :
                      list[j].ta_id % 2 = Xr[list[j].ta_id \div 2]
                THEN 0 ELSE 1]]

stm_calculate_clause_output(m, Xr, skip_empty) ==
    [m EXCEPT !.clause_output = [clause_id \in 0..(m.num_clauses - 1) |->
        LET list == m.ta_state[clause_id]
            r == stm_clause_loop(m, Xr, list, Head0(list), TRUE)
        IN IF r.empty_clause /\ skip_empty = 1 THEN 0 ELSE r.output]]

\* the sparse sum_votes has the text of the dense one
stm_sum_votes(m) ==
    LET summed == votes_loop(m, 0, [class_id \in 0..(m.num_classes - 1) |-> 0])
    IN [m EXCEPT !.votes = [class_id \in 0..(m.num_classes - 1) |->
                               clip(summed[class_id], m.threshold)]]

\* active_literals[class_id * al_row_size + (literal_id >> 3)] and the mask
\* 1 << (literal_id & 7)
AlIdx(m, class_id, literal_id) == (class_id * m.al_row_size) + (literal_id \div 8)
BitMask(literal_id) == Pow2(literal_id % 8)
BitAnd(byte, mask) == IF (byte \div mask) % 2 = 1 THEN mask ELSE 0
BitOr(byte, mask) == IF (byte \div mask) % 2 = 1 THEN byte ELSE byte + mask

\* ta_state += min(max_state - ta_state, feedback_strength) * b
stm_reward(m, state, b) == Int8(state + (min(m.max_state - state, 1) * b))

\* ta_state -= min(-(min_state - ta_state), feedback_strength)
\*                 * prng_next_float() <= s_inv;
\* the comparison binds weaker than the product: the state drops by the 0/1
\* value of  (min(..) * draw) <= s_inv
stm_punish(m, state, q) ==
    Int8(state - Bool(FloatLE(min(-(m.min_state - state), 1) * q, m.s_inv)))

\* the cursor of a kernel: the list, the active-literal bytes, the draws left,
\* state_ptr and prev_state_ptr
Cursor(m, clause_id, d) ==
    [list |-> m.ta_state[clause_id], al |-> m.active_literals, d |-> d,
     state_ptr |-> Head0(m.ta_state[clause_id]), prev_state_ptr |-> 0]

\* prev_state_ptr = state_ptr; state_ptr = state_ptr->next, after a store of st
Advance(r, st, d) ==
    [r EXCEPT !.list[r.state_ptr].ta_state = st, !.d = d,
              !.prev_state_ptr = r.state_ptr,
              !.state_ptr = NextPtr(r.list, r.state_ptr)]

\* a punishment that, after a removal, also steps over the node that follows
PunishStepOverNext(m, r, st) ==
    IF st < m.sparse_min_state
    THEN LET rm == ta_state_remove([r.list EXCEPT ![r.state_ptr].ta_state = st],
                                   r.prev_state_ptr, r.state_ptr)
         IN [r EXCEPT !.list = rm.list, !.d = Tail(r.d),
                      !.prev_state_ptr = rm.result,
                      !.state_ptr = IF rm.result = 0 THEN 0
                                    ELSE NextPtr(rm.list, rm.result)]
    ELSE Advance(r, st, Tail(r.d))

\* the store of st, then the test against sparse_min_state: removal or advance
PunishStep(m, r, st) ==
    IF st < m.sparse_min_state
    THEN LET rm == ta_state_remove([r.list EXCEPT ![r.state_ptr].ta_state = st],
                                   r.prev_state_ptr, r.state_ptr)
         IN [r EXCEPT !.list = rm.list, !.d = Tail(r.d), !.state_ptr = rm.result]
    ELSE Advance(r, st, Tail(r.d))

\* the loop of the sparse type_1a_feedback over i = 0 .. 2 * num_literals - 1
RECURSIVE stm_type_1a_loop(_, _, _, _, _)
stm_type_1a_loop(m, Xr, class_id, i, r) ==
    IF i >= m.num_literals * 2 THEN r
    ELSE LET literal_id == i \div 2
             is_negative_TA == i % 2
             ai == AlIdx(m, class_id, literal_id)
             is_active_literal == BitAnd(r.al[ai], BitMask(literal_id))
         IN IF r.state_ptr = 0 \/ r.list[r.state_ptr].ta_id # i
            THEN stm_type_1a_loop(m, Xr, class_id, i + 1,
                    IF is_active_literal = 0 /\ is_negative_TA = 0 /\ Xr[literal_id] = 1
                    THEN [r EXCEPT !.al[ai] = BitOr(r.al[ai], BitMask(literal_id))]
                    ELSE r)
            ELSE LET n == r.list[r.state_ptr]
                     boost == m.boost_true_positive_feedback = 1
                 IN IF (n.ta_id % 2) # Xr[n.ta_id \div 2]
                    THEN stm_type_1a_loop(m, Xr, class_id, i + 1,
                            Advance(r,
                                stm_reward(m, n.ta_state,
                                    Bool(boost \/ FloatLE(Head(r.d), m.s_min1_inv))),
                                IF boost THEN r.d ELSE Tail(r.d)))
                    ELSE stm_type_1a_loop(m, Xr, class_id, i + 1,
                            PunishStep(m, r, stm_punish(m, n.ta_state, Head(r.d))))

stm_type_1a_feedback(m, Xr, clause_id, class_id, d) ==
    LET wi == WIdx(m, clause_id, class_id)
        r == stm_type_1a_loop(m, Xr, class_id, 0, Cursor(m, clause_id, d))
    IN [m |-> [m EXCEPT !.weights[wi] = reinforce_weight(m.weights[wi]),
                        !.ta_state[clause_id] = r.list,
                        !.active_literals = r.al],
        d |-> r.d]

RECURSIVE stm_type_1b_loop(_, _, _)
stm_type_1b_loop(m, i, r) ==
    IF i >= m.num_literals * 2 THEN r
    ELSE IF r.state_ptr = 0 \/ r.list[r.state_ptr].ta_id # i
         THEN stm_type_1b_loop(m, i + 1, r)
         ELSE stm_type_1b_loop(m, i + 1,
                 PunishStep(m, r,
                     stm_punish(m, r.list[r.state_ptr].ta_state, Head(r.d))))

stm_type_1b_feedback(m, clause_id, d) ==
    LET r == stm_type_1b_loop(m, 0, Cursor(m, clause_id, d))
    IN [m |-> [m EXCEPT !.ta_state[clause_id] = r.list], d |-> r.d]

\* a Type II loop that inserts without looking at the active-literal bit
RECURSIVE type_2_loop_any_literal(_, _, _, _, _)
type_2_loop_any_literal(m, Xr, class_id, i, r) ==
    IF i >= m.num_literals * 2 THEN r
    ELSE LET literal_id == i \div 2
             is_negative_TA == i % 2
         IN IF r.state_ptr = 0 \/ r.list[r.state_ptr].ta_id # i
            THEN IF is_negative_TA = 0 \/ Xr[literal_id] = 1
                 THEN LET ins == ta_state_insert(r.list, r.prev_state_ptr, i,
                                                 m.sparse_init_state)
                      IN type_2_loop_any_literal(m, Xr, class_id, i + 1,
                            [r EXCEPT !.list = ins.list,
                                      !.prev_state_ptr = ins.result,
                                      !.state_ptr = NextPtr(ins.list, ins.result)])
                 ELSE type_2_loop_any_literal(m, Xr, class_id, i + 1, r)
            ELSE LET state == r.list[r.state_ptr].ta_state
                 IN type_2_loop_any_literal(m, Xr, class_id, i + 1,
                       Advance(r,
                           stm_reward(m, state,
                               Bool(0 = action(state, m.mid_state)
                                    /\ is_negative_TA = Xr[literal_id])),
                           r.d))

RECURSIVE stm_type_2_loop(_, _, _, _, _)
stm_type_2_loop(m, Xr, class_id, i, r) ==
    IF i >= m.num_literals * 2 THEN r
    ELSE LET literal_id == i \div 2
             is_negative_TA == i % 2
             ai == AlIdx(m, class_id, literal_id)
             is_active_literal == BitAnd(r.al[ai], BitMask(literal_id))
         IN IF r.state_ptr = 0 \/ r.list[r.state_ptr].ta_id # i
            THEN IF is_active_literal # 0
                    /\ (is_negative_TA = 0
                        \/ (is_negative_TA # 0 /\ Xr[literal_id] = 1))
                 THEN LET ins == ta_state_insert(r.list, r.prev_state_ptr, i,
                                                 m.sparse_init_state)
                      IN stm_type_2_loop(m, Xr, class_id, i + 1,
                            [r EXCEPT !.list = ins.list,
                                      !.prev_state_ptr = ins.result,
                                      !.state_ptr = NextPtr(ins.list, ins.result)])
                 ELSE stm_type_2_loop(m, Xr, class_id, i + 1, r)
            ELSE LET state == r.list[r.state_ptr].ta_state
                 IN stm_type_2_loop(m, Xr, class_id, i + 1,
                       Advance(r,
                           stm_reward(m, state,
                               Bool(0 = action(state, m.mid_state)
                                    /\ is_negative_TA = Xr[literal_id])),
                           r.d))

stm_type_2_feedback(m, Xr, clause_id, class_id, d) ==
    LET wi == WIdx(m, clause_id, class_id)
        r == stm_type_2_loop(m, Xr, class_id, 0, Cursor(m, clause_id, d))
    IN [m |-> [m EXCEPT !.weights[wi] = punish_weight(m.weights[wi]),
                        !.ta_state[clause_id] = r.list],
        d |-> d]

stm_apply_feedback(m, clause_id, class_id, is_class_positive, Xr, d) ==
    LET is_vote_positive == Bool(m.weights[WIdx(m, clause_id, class_id)] >= 0)
    IN IF is_vote_positive = is_class_positive
       THEN IF m.clause_output[clause_id] = 1
            THEN Ran(stm_type_1a_feedback(m, Xr, clause_id, class_id, d), "1a")
            ELSE Ran(stm_type_1b_feedback(m, clause_id, d), "1b")
       ELSE IF m.clause_output[clause_id] = 1
            THEN Ran(stm_type_2_feedback(m, Xr, clause_id, class_id, d), "2")
            ELSE [m |-> m, d |-> d, kernel |-> "none"]

\* one iteration of a clause loop of stm_feedback_class_idx / _bin_vector
stm_clause_feedback(m, f, is_class_positive, d) ==
    IF FloatLE(Head(d), f.p)
    THEN stm_apply_feedback(m, f.clause_id, f.class_id, is_class_positive, f.X, Tail(d))
    ELSE [m |-> m, d |-> Tail(d), kernel |-> "skip"]

\* an stm_predict that evaluates the clauses as training does (skip_empty = 0)
stm_predict_keep_empty(m, Xr) == stm_sum_votes(stm_calculate_clause_output(m, Xr, 0))

\* one row of stm_predict: the machine afterwards (clause_output, votes)
stm_predict(m, Xr) == stm_sum_votes(stm_calculate_clause_output(m, Xr, 1))

\* the list of one clause as stm_load_dense builds it; r = [list, prev_ptr]
RECURSIVE load_list(_, _, _, _, _)
load_list(m, flat_states, clause_id, i, r) ==
    IF i >= m.num_literals * 2 THEN r.list
    ELSE LET state == flat_states[(clause_id * m.num_literals * 2) + i]
         IN IF action(state, m.mid_state) = 1
            THEN LET ins == ta_state_insert(r.list, r.prev_ptr, i, state)
                 IN load_list(m, flat_states, clause_id, i + 1,
                              [list |-> ins.list, prev_ptr |-> ins.result])
            ELSE load_list(m, flat_states, clause_id, i + 1, r)

\* stm_load_dense: NoMachine (NULL) when the file is missing or short
stm_load_dense(b, y_size) ==
    IF Len(b) < HeaderLen THEN NoMachine
    ELSE LET h == read_header(b, y_size)
             nw == h.num_clauses * h.num_classes
             ns == h.num_clauses * h.num_literals * 2
             created == stm_create(h, [i \in 1..StmInitDraws(h) |-> 0])
             flat_states == [i \in 0..(ns - 1) |->
                                ReadI8(b, HeaderLen + (2 * nw) + i + 1)]
         IN IF Len(b) < HeaderLen + (2 * nw) + ns THEN NoMachine
            ELSE [created EXCEPT
                    !.weights = [i \in 0..(nw - 1) |-> ReadI16(b, HeaderLen + (2 * i) + 1)],
                    !.ta_state = [clause_id \in 0..(h.num_clauses - 1) |->
                        load_list(created, flat_states, clause_id, 0,
                                  [list |-> <<>>, prev_ptr |-> 0])]]

-----------------------------------------------------------------------------
(* Stateless machine: stateless_tsetlin_machine.c.  A clause is the list of
   the ta_ids it includes; there is no training. *)

\* an insertion that ignores prev and always links the node in at the head
stateless_insert_at_head(list, prev, ta_id) ==
    [list |-> <<ta_id>> \o list, result |-> 1]

\* ta_stateless_insert(head_ptr, prev, ta_id, result): as ta_state_insert,
\* the nodes being bare ta_ids
ta_stateless_insert(list, prev, ta_id) ==
    IF Len(list) = 0 THEN [list |-> <<ta_id>>, result |-> 1]
    ELSE IF prev = 0 THEN [list |-> <<ta_id>> \o list, result |-> 1]
    ELSE [list |-> SubSeq(list, 1, prev) \o <<ta_id>>
                   \o SubSeq(list, prev + 1, Len(list)),
          result |-> prev + 1]

\* sltm_create and sltm_initialize; the weights are malloc'ed and not written
\* before sltm_load_dense reads them from the file, they are shown as 0
sltm_create(h) ==
    [num_classes |-> h.num_classes, threshold |-> h.threshold,
     num_literals |-> h.num_literals, num_clauses |-> h.num_clauses,
     max_state |-> h.max_state, min_state |-> h.min_state,
     boost_true_positive_feedback |-> h.boost_true_positive_feedback,
     s |-> h.s, y_size |-> h.y_size,
     output_activation |-> "class_idx",
     ta_state |-> [k \in 0..(h.num_clauses - 1) |-> <<>>],
     mid_state |-> Int8(CDiv(h.max_state + h.min_state, 2)),
     s_inv |-> Prob(1, h.s), s_min1_inv |-> Prob(h.s - 1, h.s),
     weights |-> [i \in 0..((h.num_clauses * h.num_classes) - 1) |-> 0],
     clause_output |-> [k \in 0..(h.num_clauses - 1) |-> 0],
     votes |-> [c \in 0..(h.num_classes - 1) |-> 0]]

\* the list of one clause as sltm_load_dense builds it; r = [list, prev_ptr]
RECURSIVE sltm_load_list(_, _, _, _, _)
sltm_load_list(m, flat_states, clause_id, i, r) ==
    IF i >= m.num_literals * 2 THEN r.list
    ELSE IF action(flat_states[(clause_id * m.num_literals * 2) + i], m.mid_state) = 1
         THEN LET ins == ta_stateless_insert(r.list, r.prev_ptr, i)
              IN sltm_load_list(m, flat_states, clause_id, i + 1,
                                [list |-> ins.list, prev_ptr |-> ins.result])
         ELSE sltm_load_list(m, flat_states, clause_id, i + 1, r)

\* sltm_load_dense: NoMachine (NULL) when the file is missing or short
sltm_load_dense(b, y_size) ==
    IF Len(b) < HeaderLen THEN NoMachine
    ELSE LET h == read_header(b, y_size)
             nw == h.num_clauses * h.num_classes
             ns == h.num_clauses * h.num_literals * 2
             created == sltm_create(h)
             flat_states == [i \in 0..(ns - 1) |->
                                ReadI8(b, HeaderLen + (2 * nw) + i + 1)]
         IN IF Len(b) < HeaderLen + (2 * nw) + ns THEN NoMachine
            ELSE [created EXCEPT
                    !.weights = [i \in 0..(nw - 1) |-> ReadI16(b, HeaderLen + (2 * i) + 1)],
                    !.ta_state = [clause_id \in 0..(h.num_clauses - 1) |->
                        sltm_load_list(created, flat_states, clause_id, 0,
                                       [list |-> <<>>, prev_ptr |-> 0])]]

\* the list walk of the stateless calculate_clause_output, with its break
RECURSIVE sltm_clause_loop(_, _, _, _)
sltm_clause_loop(Xr, list, curr_ptr, empty_clause) ==
    IF curr_ptr = 0 THEN [output |-> 1, empty_clause |-> empty_clause]
    ELSE IF list[curr_ptr] % 2 = Xr[list[curr_ptr] \div 2]
         THEN [output |-> 0, empty_clause |-> FALSE]
         ELSE sltm_clause_loop(Xr, list, NextPtr(list, curr_ptr), FALSE)

sltm_calculate_clause_output(m, Xr) ==
    [m EXCEPT !.clause_output = [clause_id \in 0..(m.num_clauses - 1) |->
        LET list == m.ta_state[clause_id]
            r == sltm_clause_loop(Xr, list, Head0(list), TRUE)
        IN IF r.empty_clause THEN 0 ELSE r.output]]

\* the stateless sum_votes has the text of the dense one
sltm_sum_votes(m) ==
    LET summed == votes_loop(m, 0, [class_id \in 0..(m.num_classes - 1) |-> 0])
    IN [m EXCEPT !.votes = [class_id \in 0..(m.num_classes - 1) |->
                               clip(summed[class_id], m.threshold)]]

\* one row of sltm_predict: the machine afterwards (clause_output, votes)
sltm_predict(m, Xr) == sltm_sum_votes(sltm_calculate_clause_output(m, Xr))

-----------------------------------------------------------------------------
(* Hyperparameters and inputs explored *)

H(C, T, L, K, mx, mn, boost, s) ==
    [num_classes |-> C, threshold |-> T, num_literals |-> L, num_clauses |-> K,
     max_state |-> mx, min_state |-> mn, boost_true_positive_feedback |-> boost,
     s |-> s, y_size |-> 1]

Variants == {"class_idx", "bin_vector"}

YSize(h, variant) == IF variant = "class_idx" THEN 1 ELSE h.num_classes

\* a configuration: the arguments of the constructor and the variant the
\* client then sets; y_size is what the variant requires
Cfg(h, variant) == [h |-> [h EXCEPT !.y_size = YSize(h, variant)], variant |-> variant]

\* The state ranges [max_state, min_state] explored: a narrow range around 0,
\* the narrowest range with min_state = 0, and the range of the examples and
\* tests.  Class-index machines have two classes and one literal, bin-vector
\* machines one class and two literals; the last machine has s = 1, where
\* s_inv = 1 and s_min1_inv = 0.
DenseConfigs ==
    {Cfg(H(2, 2, 1, 1, 1, -2, 0, 2), "class_idx"),
     Cfg(H(2, 2, 1, 1, 1, 0, 1, 10), "class_idx"),
     Cfg(H(2, 1, 1, 1, 127, -127, 0, 2), "class_idx"),
     Cfg(H(1, 1, 2, 1, 1, -2, 0, 2), "bin_vector"),
     Cfg(H(1, 2, 2, 1, 1, 0, 1, 10), "bin_vector"),
     Cfg(H(1, 1, 2, 1, 127, -127, 1, 10), "bin_vector"),
     Cfg(H(1, 1, 1, 1, 1, -2, 0, 1), "bin_vector")}

\* tm_set_output_activation and tm_set_calculate_feedback, called by the
\* client right after construction
configure(m, variant) ==
    [m EXCEPT !.output_activation = variant, !.calculate_feedback = variant]

\* Model files left by earlier, longer training runs of a machine with the
\* examples' state range: weights and states that training reaches only after
\* thousands of rows (weights at the int16 bounds, states at min_state and
\* max_state).
TrainedMachines ==
    {[tm_create(c.h, [i \in 1..InitDraws(c.h) |-> 0]) EXCEPT
         !.weights = [i \in 0..(c.h.num_clauses * c.h.num_classes - 1) |-> w],
         !.ta_state = [i \in 0..(c.h.num_clauses * c.h.num_literals * 2 - 1) |->
                          IF i % 2 = 0 THEN st[1] ELSE st[2]]] :
        c \in {x \in DenseConfigs : x.h.max_state = 127},
        w \in {SHRT_MIN, SHRT_MAX},
        st \in {<<127, -127>>, <<-127, 127>>}}

SavedModels == {tm_save(m) : m \in TrainedMachines}

-----------------------------------------------------------------------------
(* Specification Spec: a dense machine is constructed (tm_create, or tm_load
   of a saved model), configured, then trained row by row and queried. *)

Init ==
    /\ \/ \E c \in DenseConfigs : \E d \in Draws(InitDraws(c.h)) :
             tm = configure(tm_create(c.h, d), c.variant)
       \/ \E b \in SavedModels, v \in Variants :
             /\ read_header(b, 1).num_classes = (IF v = "class_idx" THEN 2 ELSE 1)
             /\ tm = configure(tm_load(b, YSize(read_header(b, 1), v)), v)
    /\ stm = NoMachine
    /\ file = <<>>
    /\ fb = NoFeedback
    /\ rows = 0
    /\ pred = NoPreds
    /\ sltm = NoMachine
    /\ loaded = NoMachine
    /\ call = NoCall

\* tm_train, one row: calculate_clause_output(tm, X_row, 0), sum_votes, and
\* the entry of tm->calculate_feedback up to its first clause loop
TmTrainRow ==
    /\ tm # NoMachine
    /\ fb.phase = "idle"
    /\ rows < MaxRows
    /\ \E Xr \in Rows(tm), y \in Labels(tm), u \in U32Draws :
          LET m == sum_votes(calculate_clause_output(tm, Xr, 0))
          IN /\ tm' = m
             /\ fb' = begin_feedback(m, Xr, y, u)
    /\ pred' = [pred EXCEPT !.tm = NoPred]
    /\ UNCHANGED <<stm, sltm, loaded, file, rows, call>>

\* one iteration of the positive clause loop
TmFeedbackPositive ==
    /\ tm # NoMachine
    /\ fb.phase = "positive"
    /\ \E d \in Draws(1 + (2 * tm.num_literals)) :
          LET r == clause_feedback(tm, fb, 1, d)
          IN /\ tm' = r.m
             /\ fb' = IF fb.clause_id + 1 < tm.num_clauses
                      THEN [fb EXCEPT !.clause_id = fb.clause_id + 1,
                                      !.kernel = r.kernel,
                                      !.drawn = Len(d) - 1 - Len(r.d),
                                      !.draws = SubSeq(d, 2, Len(d) - Len(r.d))]
                      ELSE [fb EXCEPT !.phase = "select_negative", !.clause_id = 0,
                                      !.kernel = r.kernel,
                                      !.drawn = Len(d) - 1 - Len(r.d),
                                      !.draws = SubSeq(d, 2, Len(d) - Len(r.d))]
    /\ UNCHANGED <<stm, sltm, loaded, file, rows, pred, call>>

\* the choice of the negative class, or the return when the weights sum to 0
TmSelectNegative ==
    /\ tm # NoMachine
    /\ fb.phase = "select_negative"
    /\ \E u \in U32Draws :
          LET pk == pick_class(tm, negative_candidates(tm, fb.y), u)
          IN IF pk.skip
             THEN fb' = [fb EXCEPT !.phase = "done"] /\ rows' = rows
             ELSE /\ fb' = [fb EXCEPT !.phase = "negative", !.clause_id = 0,
                                      !.class_id = pk.class, !.kernel = "begin",
                                      !.drawn = 0, !.draws = <<>>,
                                      !.p = update_probability_negative(tm, pk.class)]
                  /\ rows' = rows
    /\ UNCHANGED <<tm, stm, sltm, loaded, file, pred, call>>

\* one iteration of the negative clause loop
TmFeedbackNegative ==
    /\ tm # NoMachine
    /\ fb.phase = "negative"
    /\ \E d \in Draws(1 + (2 * tm.num_literals)) :
          LET r == clause_feedback(tm, fb, 0, d)
          IN /\ tm' = r.m
             /\ IF fb.clause_id + 1 < tm.num_clauses
                THEN /\ fb' = [fb EXCEPT !.clause_id = fb.clause_id + 1,
                                         !.kernel = r.kernel,
                                         !.drawn = Len(d) - 1 - Len(r.d),
                                      !.draws = SubSeq(d, 2, Len(d) - Len(r.d))]
                     /\ rows' = rows
                ELSE /\ fb' = [fb EXCEPT !.phase = "done", !.kernel = r.kernel,
                                         !.drawn = Len(d) - 1 - Len(r.d),
                                      !.draws = SubSeq(d, 2, Len(d) - Len(r.d))]
                     /\ rows' = rows
    /\ UNCHANGED <<stm, sltm, loaded, file, pred, call>>

\* tm_predict on one row
TmPredict ==
    /\ tm # NoMachine
    /\ fb.phase = "idle"
    /\ \E Xr \in Rows(tm) :
          LET m == tm_predict(tm, Xr)
          IN /\ tm' = m
             /\ pred' = [pred EXCEPT !.tm = [X |-> Xr, y_pred |-> output_activation(m)]]
    /\ UNCHANGED <<stm, sltm, loaded, file, fb, rows, call>>

\* the feedback function returns and tm_train moves on to the next row
TmRowDone ==
    /\ tm # NoMachine
    /\ fb.phase = "done"
    /\ fb' = NoFeedback
    /\ rows' = rows + 1
    /\ UNCHANGED <<tm, stm, sltm, loaded, file, pred, call>>

Next ==
    \/ TmTrainRow
    \/ TmFeedbackPositive
    \/ TmSelectNegative
    \/ TmFeedbackNegative
    \/ TmRowDone
    \/ TmPredict

Spec == Init /\ [][Next]_vars

-----------------------------------------------------------------------------
(* Properties of the dense machine, checked under Spec *)

\* C1: in a dense machine min_state <= state <= max_state holds for every TA
\* at every moment, directly after tm_create and after any sequence of
\* tm_train rows, for every hyperparameter choice with min_state < max_state.
C1_DenseStatesInRange ==
    tm # NoMachine =>
        \A i \in DOMAIN tm.ta_state :
            tm.min_state <= tm.ta_state[i] /\ tm.ta_state[i] <= tm.max_state

\* C6: every weight stays within [-32768, 32767] without wrap-around: a step
\* of the feedback loops moves a weight by at most 1, and Type I a moves the
\* weight of its clause and class away from zero by 1 unless it is at 32767
\* or -32768, where it stays.
C6_WeightsSaturate ==
    [][\A i \in DOMAIN tm.weights :
          /\ SHRT_MIN <= tm'.weights[i] /\ tm'.weights[i] <= SHRT_MAX
          /\ tm'.weights[i] - tm.weights[i] \in {-1, 0, 1}
          /\ (/\ fb.phase \in {"positive", "negative"}
              /\ fb'.kernel = "1a"
              /\ i = WIdx(tm, fb.clause_id, fb.class_id))
             => tm'.weights[i] = (IF tm.weights[i] >= 0
                                  THEN (IF tm.weights[i] = SHRT_MAX THEN SHRT_MAX
                                        ELSE tm.weights[i] + 1)
                                  ELSE (IF tm.weights[i] = SHRT_MIN THEN SHRT_MIN
                                        ELSE tm.weights[i] - 1))]_vars

\* Type I a has just run on a weight that was at 32767 and left it there, in
\* the first row of training of a loaded machine
C6_SaturatedAtMax ==
    /\ tm # NoMachine
    /\ rows = 0
    /\ fb.phase = "select_negative"
    /\ fb.kernel = "1a"
    /\ tm.weights[WIdx(tm, 0, fb.class_id)] = SHRT_MAX

-----------------------------------------------------------------------------
(* Specification SpecSparse: a sparse machine is constructed (stm_create, or
   stm_load_dense of a saved dense model), configured, then trained row by
   row and queried. *)

\* The examples' range with two literals; a narrow range, where mid_state - 40
\* lies below min_state; a range low enough for mid_state - 40 to leave int8_t.
SparseConfigs ==
    {Cfg(H(1, 1, 2, 1, 127, -127, 0, 2), "bin_vector"),
     Cfg(H(2, 2, 1, 1, 1, -2, 1, 10), "class_idx"),
     Cfg(H(1, 1, 1, 1, -88, -92, 0, 2), "bin_vector")}

\* n rounds of Type I b on clause 0, every draw 0.0
RECURSIVE Punished(_, _)
Punished(m, n) ==
    IF n = 0 THEN m
    ELSE Punished(stm_type_1b_feedback(m, 0, [i \in 1..(2 * m.num_literals) |-> 0]).m,
                  n - 1)

\* Machines further into training than MaxRows rows reach: after Type I a on
\* X = (1, .., 1) has made every literal active for class 0, after Type II has
\* then materialized the TAs of clause 0, and after 4 and 5 rounds of
\* Type I b have taken them to sparse_min_state + 1 and sparse_min_state.
MidTraining(c) ==
    LET m0 == configure(stm_create(c.h, [i \in 1..StmInitDraws(c.h) |-> 8388607]),
                        c.variant)
        ones == [l \in 0..(c.h.num_literals - 1) |-> 1]
        m1 == stm_type_1a_feedback(m0, ones, 0, 0, <<>>).m
        m2 == stm_type_2_feedback(m1, ones, 0, 0, <<>>).m
    IN {m1, Punished(m2, 4), Punished(m2, 5)}

InitSparse ==
    /\ tm = NoMachine
    /\ \/ \E c \in SparseConfigs : \E d \in Draws(StmInitDraws(c.h)) :
             stm = configure(stm_create(c.h, d), c.variant)
       \/ \E c \in SparseConfigs :
             /\ c.h.max_state = 127
             /\ stm \in MidTraining(c)
       \/ \E b \in SavedModels, v \in Variants :
             /\ read_header(b, 1).num_classes = (IF v = "class_idx" THEN 2 ELSE 1)
             /\ stm = configure(stm_load_dense(b, YSize(read_header(b, 1), v)), v)
    /\ file = <<>>
    /\ fb = NoFeedback
    /\ rows = 0
    /\ pred = NoPreds
    /\ sltm = NoMachine
    /\ loaded = NoMachine
    /\ call = NoCall

\* stm_train, one row: calculate_clause_output(stm, X_row, 0), sum_votes, and
\* the entry of stm->calculate_feedback up to its first clause loop
StmTrainRow ==
    /\ stm # NoMachine
    /\ fb.phase = "idle"
    /\ rows < MaxRows
    /\ \E Xr \in Rows(stm), y \in Labels(stm), u \in U32Draws :
          LET m == stm_sum_votes(stm_calculate_clause_output(stm, Xr, 0))
          IN /\ stm' = m
             /\ fb' = begin_feedback(m, Xr, y, u)
    /\ pred' = [pred EXCEPT !.stm = NoPred]
    /\ UNCHANGED <<tm, sltm, loaded, file, rows, call>>

\* one iteration of the positive clause loop: the gate draw and at most one
\* draw for each materialized TA of the clause
StmFeedbackPositive ==
    /\ stm # NoMachine
    /\ fb.phase = "positive"
    /\ \E d \in Draws(1 + Len(stm.ta_state[fb.clause_id])) :
          LET r == stm_clause_feedback(stm, fb, 1, d)
          IN /\ stm' = r.m
             /\ fb' = IF fb.clause_id + 1 < stm.num_clauses
                      THEN [fb EXCEPT !.clause_id = fb.clause_id + 1,
                                      !.kernel = r.kernel,
                                      !.drawn = Len(d) - 1 - Len(r.d),
                                      !.draws = SubSeq(d, 2, Len(d) - Len(r.d))]
                      ELSE [fb EXCEPT !.phase = "select_negative", !.clause_id = 0,
                                      !.kernel = r.kernel,
                                      !.drawn = Len(d) - 1 - Len(r.d),
                                      !.draws = SubSeq(d, 2, Len(d) - Len(r.d))]
    /\ UNCHANGED <<tm, sltm, loaded, file, rows, pred, call>>

\* the choice of the negative class, or the return when the weights sum to 0
StmSelectNegative ==
    /\ stm # NoMachine
    /\ fb.phase = "select_negative"
    /\ \E u \in U32Draws :
          LET pk == pick_class(stm, negative_candidates(stm, fb.y), u)
          IN IF pk.skip
             THEN fb' = [fb EXCEPT !.phase = "done"]
             ELSE fb' = [fb EXCEPT !.phase = "negative", !.clause_id = 0,
                                   !.class_id = pk.class, !.kernel = "begin", !.drawn = 0,
                                   !.draws = <<>>,
                                   !.p = update_probability_negative(stm, pk.class)]
    /\ UNCHANGED <<tm, stm, sltm, loaded, file, rows, pred, call>>

\* one iteration of the negative clause loop
StmFeedbackNegative ==
    /\ stm # NoMachine
    /\ fb.phase = "negative"
    /\ \E d \in Draws(1 + Len(stm.ta_state[fb.clause_id])) :
          LET r == stm_clause_feedback(stm, fb, 0, d)
          IN /\ stm' = r.m
             /\ fb' = IF fb.clause_id + 1 < stm.num_clauses
                      THEN [fb EXCEPT !.clause_id = fb.clause_id + 1,
                                      !.kernel = r.kernel,
                                      !.drawn = Len(d) - 1 - Len(r.d),
                                      !.draws = SubSeq(d, 2, Len(d) - Len(r.d))]
                      ELSE [fb EXCEPT !.phase = "done", !.kernel = r.kernel,
                                      !.drawn = Len(d) - 1 - Len(r.d),
                                      !.draws = SubSeq(d, 2, Len(d) - Len(r.d))]
    /\ UNCHANGED <<tm, sltm, loaded, file, rows, pred, call>>

\* the feedback function returns and stm_train moves on to the next row
StmRowDone ==
    /\ stm # NoMachine
    /\ fb.phase = "done"
    /\ fb' = NoFeedback
    /\ rows' = rows + 1
    /\ UNCHANGED <<tm, stm, sltm, loaded, file, pred, call>>

\* stm_predict on one row
StmPredict ==
    /\ stm # NoMachine
    /\ fb.phase = "idle"
    /\ \E Xr \in Rows(stm) :
          LET m == stm_predict(stm, Xr)
          IN /\ stm' = m
             /\ pred' = [pred EXCEPT !.stm = [X |-> Xr, y_pred |-> output_activation(m)]]
    /\ UNCHANGED <<tm, sltm, loaded, file, fb, rows, call>>

NextSparse ==
    \/ StmTrainRow
    \/ StmFeedbackPositive
    \/ StmSelectNegative
    \/ StmFeedbackNegative
    \/ StmRowDone
    \/ StmPredict

SpecSparse == InitSparse /\ [][NextSparse]_vars

-----------------------------------------------------------------------------
(* Properties of the sparse machine, checked under SpecSparse *)

\* every node of every clause list of the sparse machine
Nodes(m) == {<<k, j>> : k \in 0..(m.num_clauses - 1), j \in 1..2 * m.num_literals}
Materialized(m) == {n \in Nodes(m) : n[2] <= Len(m.ta_state[n[1]])}
StateOf(m, n) == m.ta_state[n[1]][n[2]].ta_state

\* C2: in a sparse machine min_state <= state <= max_state holds for every
\* materialized TA at every moment, for every hyperparameter choice, TAs
\* inserted by Type II and TAs punished by Type I included.
C2_SparseStatesInRange ==
    stm # NoMachine =>
        \A n \in Materialized(stm) :
            stm.min_state <= StateOf(stm, n) /\ StateOf(stm, n) <= stm.max_state

\* C3: the ta_ids of every clause list are strictly ascending in every
\* reachable state: after stm_create, after stm_load_dense and after any
\* feedback, insertions and removals in the middle of a traversal included.
C3_TaIdsAscending ==
    stm # NoMachine =>
        \A k \in 0..(stm.num_clauses - 1) :
            \A j \in 1..(Len(stm.ta_state[k]) - 1) :
                stm.ta_state[k][j].ta_id < stm.ta_state[k][j + 1].ta_id

\* Type II has just inserted TA 1 between two older nodes of clause 0
C3_InsertedInTheMiddle ==
    /\ stm # NoMachine
    /\ fb.phase = "done"
    /\ fb.kernel = "2"
    /\ Len(stm.ta_state[0]) = 3
    /\ stm.ta_state[0][1].ta_id = 0
    /\ stm.ta_state[0][2] = Node(1, stm.sparse_init_state)
    /\ stm.ta_state[0][3].ta_id = 2
    /\ stm.ta_state[0][3].ta_state > stm.sparse_init_state

\* C4: after any mutation that creates or updates a TA, a TA that is still
\* materialized has state >= sparse_min_state (one that fell strictly below
\* it under Type I a or Type I b was removed in the same kernel call).
C4_MaterializedAboveSparseMin ==
    stm # NoMachine =>
        \A n \in Materialized(stm) : StateOf(stm, n) >= stm.sparse_min_state

-----------------------------------------------------------------------------
(* Specification SpecEval: the dense and the sparse clause evaluator, called
   on the same logical state.  The dense machine has two clauses over two
   literals, every TA just below or at mid_state; the sparse clause holds the
   included TAs and any of the excluded ones, with the dense states. *)

EvalConfig == H(1, 1, 2, 2, 127, -127, 0, 2)

EvalStates ==
    LET mid == Int8(CDiv(EvalConfig.max_state + EvalConfig.min_state, 2))
    IN [0..((EvalConfig.num_clauses * EvalConfig.num_literals * 2) - 1) ->
           {mid - 1, mid}]

\* the list holding, in ascending order, the TAs i of the clause with keep[i]
RECURSIVE list_of(_, _, _, _, _)
list_of(m, dense_states, keep, clause_id, i) ==
    IF i = 0 THEN <<>>
    ELSE LET at == (clause_id * m.num_literals * 2) + (i - 1)
             rest == list_of(m, dense_states, keep, clause_id, i - 1)
         IN IF keep[at] THEN Append(rest, Node(i - 1, dense_states[at])) ELSE rest

\* the sparse machine holding the TAs at with keep[at]
SparseOf(dense_states, keep) ==
    LET m == stm_create(EvalConfig, [i \in 1..StmInitDraws(EvalConfig) |-> 0])
    IN [m EXCEPT !.ta_state = [clause_id \in 0..(m.num_clauses - 1) |->
           list_of(m, dense_states, keep, clause_id, m.num_literals * 2)]]

InitEval ==
    /\ \E st \in EvalStates :
          /\ tm = [tm_create(EvalConfig, [i \in 1..InitDraws(EvalConfig) |-> 0])
                      EXCEPT !.ta_state = st]
          /\ \E keep \in [DOMAIN st -> BOOLEAN] :
                /\ \A at \in DOMAIN st : st[at] >= tm.mid_state => keep[at]
                /\ stm = SparseOf(st, keep)
    /\ sltm = NoMachine
    /\ loaded = NoMachine
    /\ file = <<>>
    /\ fb = NoFeedback
    /\ rows = 0
    /\ pred = NoPreds
    /\ call = NoCall

\* calculate_clause_output of both machines on the same row
Evaluate ==
    /\ \E Xr \in Rows(tm), skip_empty \in {0, 1} :
          /\ tm' = calculate_clause_output(tm, Xr, skip_empty)
          /\ stm' = stm_calculate_clause_output(stm, Xr, skip_empty)
          /\ call' = [op |-> "calculate_clause_output", X |-> Xr,
                      skip_empty |-> skip_empty]
    /\ UNCHANGED <<sltm, loaded, file, fb, rows, pred>>

NextEval == Evaluate

SpecEval == InitEval /\ [][NextEval]_vars

\* the TAs of clause k the dense machine includes: i = 2l + p
Included(m, k) ==
    {i \in 0..((2 * m.num_literals) - 1) :
        m.ta_state[(k * m.num_literals * 2) + i] >= m.mid_state}

\* C7: clause_output is 1 iff no included TA (state >= mid_state) with
\* ta_id = 2l + p has p = X[l]; a clause with no included TA evaluates to 0
\* when skip_empty is set and to 1 when it is not.
C7_ClauseEvaluation ==
    call.op = "calculate_clause_output" =>
        \A k \in 0..(tm.num_clauses - 1) :
            tm.clause_output[k] =
                (IF Included(tm, k) = {}
                 THEN (IF call.skip_empty = 1 THEN 0 ELSE 1)
                 ELSE (IF \E i \in Included(tm, k) : i % 2 = call.X[i \div 2]
                       THEN 0 ELSE 1))

\* inference on a machine whose clause 0 is empty and whose clause 1 includes
\* TAs and is satisfied by X
C7_EmptyAndSatisfied ==
    /\ call.op = "calculate_clause_output"
    /\ call.skip_empty = 1
    /\ Included(tm, 0) = {}
    /\ tm.clause_output[0] = 0
    /\ Cardinality(Included(tm, 1)) = 2
    /\ tm.clause_output[1] = 1

\* C8: on the same logical state (the sparse clause holding any subset of the
\* TAs that contains every included one, with equal states), the same X and
\* the same skip_empty, the dense and the sparse evaluator give every clause
\* the same clause_output.
C8_EvaluatorsAgree ==
    call.op = "calculate_clause_output" =>
        \A k \in 0..(tm.num_clauses - 1) : tm.clause_output[k] = stm.clause_output[k]

\* the sparse clause 0 holds an excluded TA that would kill the clause if it
\* counted, and both evaluators say 1
C8_ExcludedMaterialized ==
    /\ call.op = "calculate_clause_output"
    /\ \E j \in 1..Len(stm.ta_state[0]) :
          /\ stm.ta_state[0][j].ta_state < stm.mid_state
          /\ stm.ta_state[0][j].ta_id % 2 = call.X[stm.ta_state[0][j].ta_id \div 2]
    /\ Included(tm, 0) # {}
    /\ tm.clause_output[0] = 1
    /\ stm.clause_output[0] = 1

-----------------------------------------------------------------------------
(* Specification SpecPersist: a trained dense machine is saved with tm_save;
   the file is loaded with tm_load, stm_load_dense and sltm_load_dense; the
   machines predict. *)

\* two clauses over two literals and two classes: a class-index machine over
\* the whole int8_t range and a bin-vector machine whose mid_state is not 0
PersistConfigs ==
    {Cfg(H(2, 2, 2, 2, 127, -128, 0, 2), "class_idx"),
     Cfg(H(2, 4, 2, 2, 5, 1, 1, 10), "bin_vector")}

\* the states of one clause after training: nothing included; one TA
\* included; two TAs of different literals; both TAs of literal 0 (a clause no
\* X satisfies); everything included
ClauseStates(h) ==
    LET mid == Int8(CDiv(h.max_state + h.min_state, 2))
        lo == h.min_state
        hi == h.max_state
    IN {<<lo, mid - 1, lo, mid - 1>>,
        <<mid, lo, mid - 1, lo>>,
        <<lo, hi, mid, mid - 1>>,
        <<hi, mid, lo, lo>>,
        <<hi, hi, mid, mid>>}

\* the weights after training, flat (num_clauses, num_classes)
TrainedWeights == {<<1, -1, -1, 1>>, <<SHRT_MAX, SHRT_MIN, 0, 5>>, <<-3, 2, 4, -1>>}

MachinesOf(c) ==
    {configure(
        [tm_create(c.h, [i \in 1..InitDraws(c.h) |-> 0]) EXCEPT
            !.ta_state = [i \in 0..7 |-> IF i < 4 THEN c0[i + 1] ELSE c1[i - 3]],
            !.weights = [i \in 0..3 |-> w[i + 1]]],
        c.variant) :
        c0 \in ClauseStates(c.h), c1 \in ClauseStates(c.h), w \in TrainedWeights}

\* the machine of the examples and tests: one class, one clause, three
\* literals, T = 100, s = 10, bin-vector output and feedback
ScenarioConfig == Cfg(H(1, 100, 3, 1, 127, -127, 0, 10), "bin_vector")

\* the states the tests write over the initialized ones
ScenarioStates == <<1, -1, -1, 1, -1, -1>>

\* that machine as the tests set it up: clause 0 is X[0] AND NOT X[1], and
\* its vote has weight 1
ScenarioMachine ==
    configure(
        [tm_create(ScenarioConfig.h, [i \in 1..InitDraws(ScenarioConfig.h) |-> 0]) EXCEPT
            !.ta_state = [i \in 0..5 |-> ScenarioStates[i + 1]],
            !.weights = [i \in 0..0 |-> 1]],
        ScenarioConfig.variant)

PersistMachines == UNION {MachinesOf(c) : c \in PersistConfigs} \cup {ScenarioMachine}

InitPersist ==
    /\ tm \in PersistMachines
    /\ stm = NoMachine
    /\ sltm = NoMachine
    /\ loaded = NoMachine
    /\ file = <<>>
    /\ fb = NoFeedback
    /\ rows = 0
    /\ pred = NoPreds
    /\ call = NoCall

\* tm_save(tm, filename)
TmSave ==
    /\ file = <<>>
    /\ file' = tm_save(tm)
    /\ UNCHANGED <<tm, stm, sltm, loaded, fb, rows, pred, call>>

\* tm_load(filename, y_size, ..), then the setters the client called on tm
TmLoad ==
    /\ file # <<>>
    /\ loaded = NoMachine
    /\ loaded' = configure(tm_load(file, tm.y_size), tm.output_activation)
    /\ UNCHANGED <<tm, stm, sltm, file, fb, rows, pred, call>>

\* stm_load_dense(filename, y_size, ..), then the same setters
StmLoadDense ==
    /\ file # <<>>
    /\ stm = NoMachine
    /\ stm' = configure(stm_load_dense(file, tm.y_size), tm.output_activation)
    /\ UNCHANGED <<tm, sltm, loaded, file, fb, rows, pred, call>>

\* sltm_load_dense(filename, y_size, ..), then sltm_set_output_activation
SltmLoadDense ==
    /\ file # <<>>
    /\ sltm = NoMachine
    /\ sltm' = [sltm_load_dense(file, tm.y_size) EXCEPT
                   !.output_activation = tm.output_activation]
    /\ UNCHANGED <<tm, stm, loaded, file, fb, rows, pred, call>>

\* sltm_predict on one row
SltmPredict ==
    /\ sltm # NoMachine
    /\ \E Xr \in Rows(sltm) :
          LET m == sltm_predict(sltm, Xr)
          IN /\ sltm' = m
             /\ pred' = [pred EXCEPT !.sltm = [X |-> Xr, y_pred |-> output_activation(m)]]
    /\ UNCHANGED <<tm, stm, loaded, file, fb, rows, call>>

NextPersist ==
    \/ TmSave
    \/ TmLoad
    \/ StmLoadDense
    \/ SltmLoadDense
    \/ TmPredict
    \/ StmPredict
    \/ SltmPredict

SpecPersist == InitPersist /\ [][NextPersist]_vars

-----------------------------------------------------------------------------
(* Properties of saving, loading and inference, checked under SpecPersist *)

\* the sum of weights[k, c] over the first n clauses k with clause_output 1
RECURSIVE ActiveWeights(_, _, _)
ActiveWeights(m, c, n) ==
    IF n = 0 THEN 0
    ELSE ActiveWeights(m, c, n - 1)
         + (IF m.clause_output[n - 1] = 1 THEN m.weights[((n - 1) * m.num_classes) + c]
            ELSE 0)

Max(a, b) == IF a > b THEN a ELSE b

\* votes[c] = max(-T, min(T, sum)) for every class c of the machine m
VotesAreClippedSums(m) ==
    \A c \in 0..(m.num_classes - 1) :
        /\ m.votes[c] = Max(-m.threshold,
                            min(m.threshold, ActiveWeights(m, c, m.num_clauses)))
        /\ -m.threshold <= m.votes[c] /\ m.votes[c] <= m.threshold

\* C5: after sum_votes, votes[c] is the sum of weights[k, c] over the clauses
\* with clause_output[k] = 1, clipped to [-T, T], in the dense, the sparse and
\* the stateless machine alike.
C5_VotesClipped ==
    /\ pred.tm # NoPred => VotesAreClippedSums(tm)
    /\ pred.stm # NoPred => VotesAreClippedSums(stm)
    /\ pred.sltm # NoPred => VotesAreClippedSums(sltm)

\* all three machines have summed their votes, and a sum beyond the
\* threshold on either side was clipped in the dense machine
C5_ClippedBothSides ==
    /\ pred.tm # NoPred /\ pred.stm # NoPred /\ pred.sltm # NoPred
    /\ ActiveWeights(tm, 0, tm.num_clauses) > tm.threshold
    /\ ActiveWeights(tm, 1, tm.num_clauses) < -tm.threshold
    /\ ActiveWeights(stm, 0, stm.num_clauses) > stm.threshold
    /\ ActiveWeights(sltm, 1, sltm.num_clauses) < -sltm.threshold

\* C9: tm_save followed by tm_load yields a machine whose weights and TA
\* states equal, element by element, those of the saved machine.
C9_SaveLoadRoundTrip ==
    loaded # NoMachine =>
        /\ DOMAIN loaded.weights = DOMAIN tm.weights
        /\ DOMAIN loaded.ta_state = DOMAIN tm.ta_state
        /\ \A i \in DOMAIN tm.weights : loaded.weights[i] = tm.weights[i]
        /\ \A i \in DOMAIN tm.ta_state : loaded.ta_state[i] = tm.ta_state[i]

\* a machine with weights at both int16 bounds and states at both int8
\* bounds has been saved and loaded
C9_LoadedExtremes ==
    /\ loaded # NoMachine
    /\ tm.weights[0] = SHRT_MAX /\ tm.weights[1] = SHRT_MIN
    /\ \E i \in DOMAIN tm.ta_state : tm.ta_state[i] = -128
    /\ \E i \in DOMAIN tm.ta_state : tm.ta_state[i] = 127

\* C10: a dense machine saved with tm_save and loaded with stm_load_dense
\* predicts as the dense machine does: on the same row X, under the same
\* output activation, stm_predict writes the y_pred tm_predict writes.
C10_SparseLoadPredictsAlike ==
    (pred.tm # NoPred /\ pred.stm # NoPred /\ pred.tm.X = pred.stm.X)
        => pred.stm.y_pred = pred.tm.y_pred

\* both machines predicted on the same row; an empty clause casts no vote
\* and the other clause decides for class 1
C10_SameRowPredicted ==
    /\ pred.tm # NoPred /\ pred.stm # NoPred /\ pred.tm.X = pred.stm.X
    /\ stm.ta_state[0] = <<>>
    /\ stm.ta_state[1] # <<>>
    /\ stm.clause_output[1] = 1
    /\ pred.stm.y_pred = <<1>>

-----------------------------------------------------------------------------
(* Properties of the stateless loader, checked under SpecPersist *)

\* the ta_ids of clause k whose dense state is >= mid_state
IncludedIds(m, k) ==
    {i \in 0..((2 * m.num_literals) - 1) :
        m.ta_state[(k * m.num_literals * 2) + i] >= m.mid_state}

\* C11: sltm_load_dense of a dense machine's file gives a stateless machine
\* whose clause k holds exactly the ta_ids with dense state >= mid_state, in
\* ascending order, and sltm_predict writes what tm_predict writes on the
\* same row X.
C11_StatelessLoadPredictsAlike ==
    /\ sltm # NoMachine =>
          \A k \in 0..(tm.num_clauses - 1) :
             LET list == sltm.ta_state[k]
             IN /\ {list[j] : j \in 1..Len(list)} = IncludedIds(tm, k)
                /\ \A j \in 1..(Len(list) - 1) : list[j] < list[j + 1]
    /\ (pred.tm # NoPred /\ pred.sltm # NoPred /\ pred.tm.X = pred.sltm.X)
          => pred.sltm.y_pred = pred.tm.y_pred

\* a clause of several ta_ids was loaded next to an empty one, and both
\* machines predicted on the same row, which satisfies the loaded clause
C11_LoadedAndPredicted ==
    /\ sltm # NoMachine
    /\ pred.tm # NoPred /\ pred.sltm # NoPred /\ pred.tm.X = pred.sltm.X
    /\ sltm.ta_state[0] = <<>>
    /\ Len(sltm.ta_state[1]) = 2
    /\ sltm.clause_output[1] = 1

-----------------------------------------------------------------------------
(* Specification SpecTrain: either machine, dense or sparse, is constructed,
   configured, trained row by row and queried. *)

InitTrain == Init \/ InitSparse

NextTrain ==
    \/ TmTrainRow
    \/ TmFeedbackPositive
    \/ TmSelectNegative
    \/ TmFeedbackNegative
    \/ TmRowDone
    \/ TmPredict
    \/ StmTrainRow
    \/ StmFeedbackPositive
    \/ StmSelectNegative
    \/ StmFeedbackNegative
    \/ StmRowDone
    \/ StmPredict

SpecTrain == InitTrain /\ [][NextTrain]_vars

\* C12: apply_feedback dispatch, dense and sparse: with vote_sign =
\* (weights[k,c] >= 0), a call applies Type I a iff vote_sign = is_positive
\* and clause_output[k] = 1, Type I b iff vote_sign = is_positive and
\* clause_output[k] = 0, Type II iff vote_sign # is_positive and
\* clause_output[k] = 1; in the remaining case no TA state and no weight
\* changes and no PRNG draw is consumed.
C12_ApplyFeedbackDispatch ==
    [][(fb.phase \in {"positive", "negative"} /\ fb'.kernel # "skip") =>
          LET dense == tm # NoMachine
              before == IF dense THEN tm ELSE stm
              after == IF dense THEN tm' ELSE stm'
              wi == WIdx(before, fb.clause_id, fb.class_id)
              is_positive == Bool(fb.phase = "positive")
              vote_sign == Bool(before.weights[wi] >= 0)
              out == before.clause_output[fb.clause_id]
          IN /\ fb'.kernel = "1a" <=> (vote_sign = is_positive /\ out = 1)
             /\ fb'.kernel = "1b" <=> (vote_sign = is_positive /\ out = 0)
             /\ fb'.kernel = "2" <=> (vote_sign # is_positive /\ out = 1)
             /\ fb'.kernel = "none" <=> (vote_sign # is_positive /\ out = 0)
             /\ fb'.kernel = "1a" =>
                   after.weights[wi] = reinforce_weight(before.weights[wi])
             /\ fb'.kernel = "1b" => after.weights = before.weights
             /\ fb'.kernel = "2" =>
                   after.weights[wi] = punish_weight(before.weights[wi])
             /\ fb'.kernel = "none" =>
                   /\ after.ta_state = before.ta_state
                   /\ after.weights = before.weights
                   /\ fb'.drawn = 0]_vars

\* the last call of a row's feedback fell into the remaining case: the gate
\* let it through and nothing was applied
C12_NothingApplied ==
    /\ fb.phase = "done"
    /\ fb.kernel = "none"
    /\ fb.drawn = 0

-----------------------------------------------------------------------------
(* Properties of the dense feedback kernels, checked under Spec *)

\* a dense Type I a / I b / II call on clause fb.clause_id has just returned
\* in this step (kernel is the kernel the call ran)
DenseKernelStep(kernel) ==
    /\ tm # NoMachine
    /\ fb.phase \in {"positive", "negative"}
    /\ fb'.kernel = kernel

\* state + 1, saturating at max_state
Raised(m, state) == IF state < m.max_state THEN state + 1 ELSE state

\* C13: dense Type I a with boost_true_positive_feedback = 1 moves
\* weights[k,c] one step away from zero (saturating at the int16 bounds) and
\* increments by 1, saturating at max_state, every TA whose polarity agrees
\* with the input (p = 0 with X[l] = 1, p = 1 with X[l] = 0), whatever the
\* PRNG emits.
C13_BoostedTypeIa ==
    [][(DenseKernelStep("1a") /\ tm.boost_true_positive_feedback = 1) =>
          LET wi == WIdx(tm, fb.clause_id, fb.class_id)
          IN /\ tm'.weights[wi] =
                   (IF tm.weights[wi] >= 0
                    THEN (IF tm.weights[wi] = SHRT_MAX THEN SHRT_MAX
                          ELSE tm.weights[wi] + 1)
                    ELSE (IF tm.weights[wi] = SHRT_MIN THEN SHRT_MIN
                          ELSE tm.weights[wi] - 1))
             /\ \A l \in 0..(tm.num_literals - 1) :
                   LET i == TaIdx(tm, fb.clause_id, l, 1 - fb.X[l])
                   IN tm'.ta_state[i] = Raised(tm, tm.ta_state[i])]_vars


\* C14: dense Type I b punishes both polarities of every literal of the
\* clause: each TA goes down by 1 exactly when its own PRNG draw is <= s_inv
\* and its state is above min_state, else it keeps its state; no weight
\* changes.
C14_TypeIbPunishes ==
    [][DenseKernelStep("1b") =>
          /\ tm'.weights = tm.weights
          /\ fb'.drawn = 2 * tm.num_literals
          /\ \A l \in 0..(tm.num_literals - 1) : \A p \in {0, 1} :
                LET i == TaIdx(tm, fb.clause_id, l, p)
                    draw == fb'.draws[(2 * l) + p + 1]
                IN tm'.ta_state[i] =
                      (IF FloatLE(draw, tm.s_inv) /\ tm.ta_state[i] > tm.min_state
                       THEN tm.ta_state[i] - 1
                       ELSE tm.ta_state[i])]_vars


\* C15: dense Type II increments by 1 (saturating at max_state) exactly the
\* TAs of the clause that are excluded (state < mid_state) and have
\* p = X[l]; every included TA and every excluded TA with p # X[l] keeps
\* its state, and the kernel consumes no PRNG draw.
C15_TypeIIRaisesExcluded ==
    [][DenseKernelStep("2") =>
          /\ fb'.drawn = 0
          /\ \A l \in 0..(tm.num_literals - 1) : \A p \in {0, 1} :
                LET i == TaIdx(tm, fb.clause_id, l, p)
                IN tm'.ta_state[i] =
                      (IF tm.ta_state[i] < tm.mid_state /\ p = fb.X[l]
                       THEN Raised(tm, tm.ta_state[i])
                       ELSE tm.ta_state[i])]_vars

\* Type II has just run on a clause in which an excluded TA has p # X[l]
\* and a TA with p = X[l] has reached mid_state
C15_TypeIIHasRun ==
    /\ tm # NoMachine
    /\ fb.phase \in {"positive", "select_negative", "negative", "done"}
    /\ fb.kernel = "2"
    /\ \E l \in 0..(tm.num_literals - 1) :
          /\ tm.ta_state[TaIdx(tm, 0, l, fb.X[l])] = tm.mid_state
          /\ tm.ta_state[TaIdx(tm, 0, l, 1 - fb.X[l])] < tm.mid_state

-----------------------------------------------------------------------------
(* The generator of fast_prng.c.  A uint32_t is the record [hi, lo] of its two
   16-bit halves, which keeps every intermediate value below 2^31. *)

U32(hi, lo) == [hi |-> hi, lo |-> lo]

\* F applied to the value of e: e is evaluated once, as a C statement
\* evaluates its right-hand side once before the next statement reads it
Bind(e, F(_)) == CHOOSE r \in {F(v) : v \in {e}} : TRUE

\* bitwise exclusive or of two 4-bit and of two 16-bit numbers
Xor4(a, b) ==
    ((a + b) % 2) + (2 * (((a \div 2) + (b \div 2)) % 2))
        + (4 * (((a \div 4) + (b \div 4)) % 2)) + (8 * (((a \div 8) + (b \div 8)) % 2))

Xor16(a, b) ==
    Xor4(a % 16, b % 16) + (16 * Xor4((a \div 16) % 16, (b \div 16) % 16))
        + (256 * Xor4((a \div 256) % 16, (b \div 256) % 16))
        + (4096 * Xor4(a \div 4096, b \div 4096))

Xor32(x, y) == U32(Xor16(x.hi, y.hi), Xor16(x.lo, y.lo))

\* x << n and x >> n on uint32_t, for 0 < n < 16 and for n = 17
Shl32(x, n) ==
    U32(((x.hi % Pow2(16 - n)) * Pow2(n)) + (x.lo \div Pow2(16 - n)),
        (x.lo % Pow2(16 - n)) * Pow2(n))
Shr17(x) == U32(0, x.hi \div 2)

\* the state keeps the seed as it is, zero included
prng_seed_keeps_zero(seed) == seed

\* prng_seed: a zero seed is replaced by 0xdeadbeef
prng_seed(seed) == IF seed = U32(0, 0) THEN U32(57005, 48879) ELSE seed

\* the state after one step: x ^= x << 13; x ^= x >> 17; x ^= x << 5
xorshift32(x) ==
    Bind(x, LAMBDA x0 :
        Bind(Xor32(x0, Shl32(x0, 13)), LAMBDA a :
            Bind(Xor32(a, Shr17(a)), LAMBDA b : Xor32(b, Shl32(b, 5)))))

\* the next n states
RECURSIVE prng_states(_, _)
prng_states(x, n) ==
    IF n = 0 THEN <<>>
    ELSE Bind(xorshift32(x), LAMBDA y : <<y>> \o prng_states(y, n - 1))

\* the state after n steps
prng_skip(x, n) == IF n = 0 THEN x ELSE Bind(prng_states(x, n), LAMBDA states : states[n])

\* prng_next_float returns (x >> 9) / 2^23 for the new state x: its mantissa
prng_mantissa(x) == (x.hi * 128) + (x.lo \div 512)

\* the next n values of prng_next_float, as mantissas
prng_floats(x, n) ==
    Bind(prng_states(x, n), LAMBDA states : [i \in 1..n |-> prng_mantissa(states[i])])

\* prng_next_uint32() % total for the new state x, 0 < total < 2^15
prng_mod(x, total) == (((x.hi % total) * (65536 % total)) + (x.lo % total)) % total


-----------------------------------------------------------------------------
(* Training with the generator: the machine record carries tm->rng, and every
   prng_next_float / prng_next_uint32 of a row takes the next state. *)

\* tm_create(.., seed): prng_seed, then tm_initialize draws from the generator
tm_create_seeded(h, seed) ==
    Bind(prng_seed(seed), LAMBDA x :
        Bind(prng_floats(x, InitDraws(h)), LAMBDA d :
            tm_create(h, d) @@ [rng |-> prng_skip(x, InitDraws(h))]))

\* a clause loop of the feedback function, from clause_id on
RECURSIVE seeded_clause_loop(_, _, _, _)
seeded_clause_loop(m, f, is_class_positive, clause_id) ==
    IF clause_id >= m.num_clauses THEN m
    ELSE Bind(prng_floats(m.rng, 1 + (2 * m.num_literals)), LAMBDA d :
             Bind(clause_feedback(m, [f EXCEPT !.clause_id = clause_id],
                                  is_class_positive, d), LAMBDA r :
                 Bind([r.m EXCEPT !.rng = prng_skip(m.rng, Len(d) - Len(r.d))], LAMBDA m1 :
                     seeded_clause_loop(m1, f, is_class_positive, clause_id + 1))))

\* the choice of a class among the candidates: no draw when their weights sum to 0
seeded_pick(m, cand) ==
    Bind(sum_votes_clipped(m, cand, 0), LAMBDA total :
        IF total = 0 THEN [m |-> m, pk |-> pick_class(m, cand, 0)]
        ELSE Bind(xorshift32(m.rng), LAMBDA x :
                 [m |-> [m EXCEPT !.rng = x], pk |-> pick_class(m, cand, prng_mod(x, total))]))

\* the negative half of the feedback function: the choice of the negative
\* class, then its clause loop
seeded_negative(m, f, y) ==
    Bind(seeded_pick(m, negative_candidates(m, y)), LAMBDA sp :
        IF sp.pk.skip THEN m
        ELSE seeded_clause_loop(
                 sp.m,
                 [f EXCEPT !.class_id = sp.pk.class,
                           !.p = update_probability_negative(sp.m, sp.pk.class)],
                 0, 0))

\* tm->calculate_feedback(tm, X_row, y_row): tm_feedback_class_idx or
\* tm_feedback_bin_vector
seeded_feedback(m, Xr, y) ==
    Bind(IF m.calculate_feedback = "bin_vector"
         THEN sum_votes_clipped(m, positive_candidates(m, y), 0)
         ELSE 0, LAMBDA total :
        Bind(xorshift32(m.rng), LAMBDA x :
            Bind(begin_feedback(m, Xr, y, IF total = 0 THEN 0 ELSE prng_mod(x, total)),
                 LAMBDA f :
                Bind(IF total = 0 THEN m ELSE [m EXCEPT !.rng = x], LAMBDA m1 :
                    Bind(IF f.phase = "positive" THEN seeded_clause_loop(m1, f, 1, 0) ELSE m1,
                         LAMBDA m2 : seeded_negative(m2, f, y))))))

seeded_train_row_stale_votes(m, Xr, y) ==
    Bind(calculate_clause_output(m, Xr, 0), LAMBDA m1 : seeded_feedback(m1, Xr, y))

\* the body of tm_train's row loop
seeded_train_row(m, Xr, y) ==
    Bind(sum_votes(calculate_clause_output(m, Xr, 0)), LAMBDA m1 : seeded_feedback(m1, Xr, y))


-----------------------------------------------------------------------------
(* Specification SpecSeeded: tm_create with a seed, then tm_train on one data
   row for several epochs, run twice over: tm and loaded are the machines of
   two runs with the same seed, hyperparameters and data.  The second run
   starts from other contents of the malloc'ed clause_output and votes. *)

MaxEpochs == 10

\* seeds 42 (the tests), 0 and 7
Seeds == {U32(0, 42), U32(0, 0), U32(0, 7)}

\* the seeds of the second run: the seed of the first, and for seed 0 also
\* 0xdeadbeef
SecondSeeds(seed) == IF seed = U32(0, 0) THEN {seed, U32(57005, 48879)} ELSE {seed}

\* the data row of a run
SeededData ==
    {[X |-> [l \in 0..2 |-> x[l + 1]], y |-> [c \in 0..0 |-> label]] :
        x \in {<<1, 0, 1>>, <<1, 0, 0>>}, label \in {0, 1}}

\* what malloc may have left in clause_output and votes
Junk == {[clause_output |-> 0, votes |-> 0], [clause_output |-> 1, votes |-> 100]}

\* a class-index machine: two classes, two clauses, two literals, s = 2
SeededClassIdx == Cfg(H(2, 2, 2, 2, 127, -127, 1, 2), "class_idx")

\* the two runs of one program: tm_create(.., seed), the setters, for the
\* machine of the tests the states and the weight it writes, then tm_train
SeededRun(c, seed, fixed) ==
    LET created == configure(tm_create_seeded(c.h, seed), c.variant)
    IN IF fixed
       THEN [created EXCEPT
               !.ta_state = [i \in 0..5 |-> ScenarioStates[i + 1]],
               !.weights = [i \in 0..0 |-> 1]]
       ELSE created

SeededRuns(c, seed, seed2, fixed, Xr, y, j) ==
    LET m == SeededRun(c, seed2, fixed)
    IN /\ tm = SeededRun(c, seed, fixed)
       /\ loaded = [m EXCEPT
                      !.clause_output = [k \in DOMAIN m.clause_output |-> j.clause_output],
                      !.votes = [c2 \in DOMAIN m.votes |-> j.votes]]
       /\ call = [op |-> "tm_train", seed |-> seed, seed2 |-> seed2, fixed |-> fixed,
                  X |-> Xr, y |-> y]

InitSeeded ==
    /\ \E seed \in Seeds, j \in Junk : \E seed2 \in SecondSeeds(seed) :
          \/ \E row \in SeededData, fixed \in BOOLEAN :
                SeededRuns(ScenarioConfig, seed, seed2, fixed, row.X, row.y, j)
          \/ \E Xr \in [0..(SeededClassIdx.h.num_literals - 1) -> {0, 1}],
                y \in 0..(SeededClassIdx.h.num_classes - 1) :
                SeededRuns(SeededClassIdx, seed, seed2, FALSE, Xr, y, j)
    /\ stm = NoMachine
    /\ sltm = NoMachine
    /\ file = <<>>
    /\ fb = NoFeedback
    /\ rows = 0
    /\ pred = NoPreds

\* one epoch of tm_train(tm, X, y, 1, epochs) in both runs
SeededTrainRow ==
    /\ call.op = "tm_train"
    /\ rows < MaxEpochs
    /\ tm' = seeded_train_row(tm, call.X, call.y)
    /\ loaded' = seeded_train_row(loaded, call.X, call.y)
    /\ rows' = rows + 1
    /\ pred' = [pred EXCEPT !.tm = NoPred]
    /\ UNCHANGED <<stm, sltm, file, fb, call>>

NextSeeded ==
    \/ SeededTrainRow
    \/ TmPredict

SpecSeeded == InitSeeded /\ [][NextSeeded]_vars

\* C16: one-sample training reverses a prediction: the machine of the tests
\* (states [1,-1,-1,1,-1,-1], weight 1, seed 42, bin-vector output and
\* feedback) predicts [1] on X = [1,0,1] before training and [0] after
\* tm_train on the single row X = [1,0,1], y = [0] for 10 epochs.
C16_TrainingReversesPrediction ==
    (/\ call.op = "tm_train" /\ call.seed = U32(0, 42) /\ call.fixed
     /\ call.X = [l \in 0..2 |-> <<1, 0, 1>>[l + 1]]
     /\ call.y = [c \in 0..0 |-> 0]
     /\ pred.tm # NoPred
     /\ pred.tm.X = call.X)
    => /\ rows = 0 => pred.tm.y_pred = <<1>>
       /\ rows = 10 => pred.tm.y_pred = <<0>>

\* the run of the test has trained for 10 epochs and predicted on its row
C16_TrainedTenEpochs ==
    /\ call.op = "tm_train" /\ call.seed = U32(0, 42) /\ call.fixed
    /\ call.X = [l \in 0..2 |-> <<1, 0, 1>>[l + 1]]
    /\ call.y = [c \in 0..0 |-> 0]
    /\ rows = 10
    /\ pred.tm # NoPred
    /\ pred.tm.X = call.X
    /\ pred.tm.y_pred = <<0>>


-----------------------------------------------------------------------------
(* Properties of the output activations, checked under SpecPersist *)

\* the clauses of m that include a TA and that X satisfies
FiringClauses(m, X) ==
    {k \in 0..(m.num_clauses - 1) :
        /\ Included(m, k) # {}
        /\ \A i \in Included(m, k) : i % 2 # X[i \div 2]}

\* the sum of weights[k, c] over the clauses k < n that are in the set ks
RECURSIVE WeightSum(_, _, _, _)
WeightSum(m, ks, c, n) ==
    IF n = 0 THEN 0
    ELSE WeightSum(m, ks, c, n - 1)
         + (IF (n - 1) \in ks THEN m.weights[((n - 1) * m.num_classes) + c] ELSE 0)

\* that sum clipped to [-T, T]
ClippedTotal(m, X, c) ==
    Max(-m.threshold, min(m.threshold, WeightSum(m, FiringClauses(m, X), c, m.num_clauses)))

\* C17: tm_predict with tm_oa_bin_vector writes, for every class c,
\* y_pred[c] = 1 iff the clipped vote total of the non-empty clauses that X
\* satisfies is strictly greater than mid_state, else 0; the machine of the
\* tests answers [1] on X = [1,0,0] and [0] on X = [1,1,0].
C17_BinVectorPrediction ==
    (pred.tm # NoPred /\ tm.output_activation = "bin_vector") =>
        /\ Len(pred.tm.y_pred) = tm.num_classes
        /\ \A c \in 0..(tm.num_classes - 1) :
              pred.tm.y_pred[c + 1] = Bool(ClippedTotal(tm, pred.tm.X, c) > tm.mid_state)
        /\ tm.ta_state = ScenarioMachine.ta_state =>
              /\ pred.tm.X = [l \in 0..2 |-> <<1, 0, 0>>[l + 1]] => pred.tm.y_pred = <<1>>
              /\ pred.tm.X = [l \in 0..2 |-> <<1, 1, 0>>[l + 1]] => pred.tm.y_pred = <<0>>

\* the machine of the tests predicted on X = [1,1,0]: no clause fires, the
\* total equals mid_state and the answer is 0
C17_TotalAtMidState ==
    /\ pred.tm # NoPred
    /\ tm.output_activation = "bin_vector"
    /\ tm.ta_state = ScenarioMachine.ta_state
    /\ pred.tm.X = [l \in 0..2 |-> <<1, 1, 0>>[l + 1]]
    /\ ClippedTotal(tm, pred.tm.X, 0) = tm.mid_state
    /\ pred.tm.y_pred = <<0>>


-----------------------------------------------------------------------------
(* Output activation on every vote vector and every y_size: SpecActivation.
   A dense and a sparse machine of ActClasses classes, created with any
   y_size and given either output activation, hold one clause that fires on
   X = [1] with any weights in -MaxVote..MaxVote; both predict one row into
   a buffer of y_size elements. *)

ActClasses == 3

MaxVote == 1

\* what malloc left in the y_pred buffer of the client
JunkLabel == 9

\* the arguments of the constructors: y_size is whatever the client passes
ActivationArgs(y_size) ==
    [H(ActClasses, MaxVote, 1, 1, 1, -2, 0, 2) EXCEPT !.y_size = y_size]

activate_unchecked(m, y_pred) ==
    LET written == IF m.output_activation = "class_idx"
                   THEN <<argmax_loop(m, 1, 0, m.votes[0])>>
                   ELSE [i \in 1..m.num_classes |-> Bool(m.votes[i - 1] > m.mid_state)]
    IN [exit |-> FALSE,
        y_pred |-> [i \in 1..Max(Len(y_pred), Len(written)) |->
                       IF i <= Len(written) THEN written[i] ELSE y_pred[i]]]

\* tm->output_activation(tm, y_pred_row): the y_size test of either
\* activation comes before its first write to y_pred; exit(1) ends the process
activate_into(m, y_pred) ==
    IF m.output_activation = "class_idx"
    THEN IF m.y_size # 1 THEN [exit |-> TRUE, y_pred |-> y_pred]
         ELSE [exit |-> FALSE, y_pred |-> tm_oa_class_idx(m)]
    ELSE IF m.y_size # m.num_classes THEN [exit |-> TRUE, y_pred |-> y_pred]
         ELSE [exit |-> FALSE, y_pred |-> tm_oa_bin_vector(m)]

InitActivation ==
    /\ \E y_size \in 1..ActClasses, variant \in Variants,
          w \in [0..(ActClasses - 1) -> (-MaxVote)..MaxVote] :
          LET h == ActivationArgs(y_size)
          IN /\ tm = configure(
                        [tm_create(h, [i \in 1..InitDraws(h) |-> 0]) EXCEPT
                            !.ta_state = [i \in 0..1 |-> IF i = 0 THEN 0 ELSE -1],
                            !.weights = w],
                        variant)
             /\ stm = configure(
                         [stm_create(h, [i \in 1..StmInitDraws(h) |-> 0]) EXCEPT
                             !.ta_state = [k \in 0..0 |-> <<Node(0, 0)>>],
                             !.weights = w],
                         variant)
             /\ pred = [tm |-> [X |-> <<>>, y_pred |-> [i \in 1..y_size |-> JunkLabel]],
                        stm |-> [X |-> <<>>, y_pred |-> [i \in 1..y_size |-> JunkLabel]],
                        sltm |-> NoPred]
    /\ sltm = NoMachine
    /\ loaded = NoMachine
    /\ file = <<>>
    /\ fb = NoFeedback
    /\ rows = 0
    /\ call = NoCall

\* tm_predict(tm, X, y_pred, 1) and stm_predict(stm, X, y_pred, 1) on the
\* same row, each into the buffer of its client
PredictInto ==
    /\ call = NoCall
    /\ \E Xr \in Rows(tm) :
          LET m == tm_predict(tm, Xr)
              sm == stm_predict(stm, Xr)
              r == activate_into(m, pred.tm.y_pred)
              sr == activate_into(sm, pred.stm.y_pred)
          IN /\ tm' = m
             /\ stm' = sm
             /\ pred' = [pred EXCEPT !.tm = [X |-> Xr, y_pred |-> r.y_pred],
                                     !.stm = [X |-> Xr, y_pred |-> sr.y_pred]]
             /\ call' = [op |-> "predict", X |-> Xr, y_pred |-> pred.tm.y_pred,
                         tm_exit |-> r.exit, stm_exit |-> sr.exit]
    /\ UNCHANGED <<sltm, loaded, file, fb, rows>>

NextActivation == PredictInto

SpecActivation == InitActivation /\ [][NextActivation]_vars

\* C18: the class-index output activation returns the smallest class index
\* whose vote total is maximal: the written label c has votes[c] >= votes[d]
\* for every class d and votes[c] > votes[d] for every d < c.
C18_ClassIdxFirstMaximum ==
    (call.op = "predict" /\ tm.output_activation = "class_idx" /\ tm.y_size = 1) =>
        /\ Len(pred.tm.y_pred) = 1
        /\ LET c == pred.tm.y_pred[1]
           IN /\ c \in 0..(tm.num_classes - 1)
              /\ \A d \in 0..(tm.num_classes - 1) : tm.votes[c] >= tm.votes[d]
              /\ \A d \in 0..(c - 1) : tm.votes[c] > tm.votes[d]

\* the last two classes tie for the maximum and the first of them is written
C18_TieForMaximum ==
    /\ call.op = "predict"
    /\ tm.output_activation = "class_idx" /\ tm.y_size = 1
    /\ tm.votes[0] < tm.votes[1]
    /\ tm.votes[1] = tm.votes[2]
    /\ pred.tm.y_pred = <<1>>


\* the activation of m does not accept the y_size m was created with
YSizeMismatch(m) ==
    \/ m.output_activation = "class_idx" /\ m.y_size # 1
    \/ m.output_activation = "bin_vector" /\ m.y_size # m.num_classes

\* C19: output activation validates y_size and fails loudly: when the
\* class-index activation runs with y_size # 1 or the bin-vector activation
\* runs with y_size # num_classes, the call ends in exit(1) and y_pred holds
\* what it held before the call, in the dense and in the sparse machine.
C19_YSizeValidated ==
    call.op = "predict" =>
        /\ YSizeMismatch(tm) => (call.tm_exit /\ pred.tm.y_pred = call.y_pred)
        /\ YSizeMismatch(stm) => (call.stm_exit /\ pred.stm.y_pred = call.y_pred)

\* a bin-vector machine of three classes created with y_size 1 predicted on
\* a row that gives class 0 a vote above mid_state: both calls exited and
\* the buffer still holds what malloc left
C19_RefusedBinVector ==
    /\ call.op = "predict"
    /\ tm.output_activation = "bin_vector" /\ tm.y_size = 1
    /\ tm.votes[0] > tm.mid_state
    /\ stm.votes[0] > stm.mid_state
    /\ call.tm_exit /\ call.stm_exit
    /\ pred.tm.y_pred = <<JunkLabel>>
    /\ pred.stm.y_pred = <<JunkLabel>>


\* C20: training is reproducible: two machines created with identical
\* hyperparameters and seed, then trained with identical (X, y, rows, epochs)
\* through the same feedback variant, hold identical weights, TA states and
\* PRNG state after every row.
C20_TrainingReproducible ==
    call.op = "tm_train" =>
        /\ loaded.weights = tm.weights
        /\ loaded.ta_state = tm.ta_state
        /\ loaded.rng = tm.rng

\* both runs have trained for several rows, which moved the weights, the TA
\* states and the generator
C20_BothRunsTrained ==
    /\ call.op = "tm_train"
    /\ rows >= 2
    /\ tm.rng # prng_skip(prng_seed(call.seed), tm.num_clauses * (tm.num_literals + tm.num_classes))
    /\ \E i \in DOMAIN tm.weights : tm.weights[i] \notin {-1, 1}
    /\ \E i \in DOMAIN tm.ta_state : tm.ta_state[i] \notin {-1, 0, 1}


-----------------------------------------------------------------------------
(* Specification SpecEpochs: tm_train / stm_train(X, y, rows, epochs) on a
   data set held by the client, statement by statement: the two loops, the
   clause evaluation, the vote sum and the feedback function of each row.
   call holds the arguments and the position of the loops; rows counts the
   feedback invocations that have returned. *)

MaxTrainRows == 2

MaxTrainEpochs == 2

\* the machines trained: two classes, one clause, one literal
EpochsDense == Cfg(H(2, 2, 1, 1, 1, -2, 0, 2), "class_idx")
EpochsSparse == Cfg(H(2, 2, 1, 1, 1, -2, 1, 10), "class_idx")

\* the loop heads: for (epoch ..) for (row ..), entered at (epoch, row)
train_enter(c, epoch, row) ==
    IF epoch < c.epochs /\ row < c.rows
    THEN [c EXCEPT !.epoch = epoch, !.row = row, !.step = "evaluate"]
    ELSE [c EXCEPT !.epoch = c.epochs, !.row = 0, !.step = "returned"]

train_next_epoch_inner(c) ==
    IF c.epoch + 1 < c.epochs THEN train_enter(c, c.epoch + 1, c.row)
    ELSE train_enter(c, IF c.row + 1 < c.rows THEN 0 ELSE c.epochs, c.row + 1)

\* row++ of the inner loop, then epoch++ of the outer one
train_next(c) ==
    IF c.row + 1 < c.rows THEN train_enter(c, c.epoch, c.row + 1)
    ELSE train_enter(c, c.epoch + 1, 0)

\* the call tm_train(tm, X, y, rows, epochs) or stm_train(stm, ..) of m
TrainCalls(op, m) ==
    UNION {{train_enter([op |-> op, X |-> X, y |-> y, rows |-> R, epochs |-> E,
                         epoch |-> 0, row |-> 0, step |-> "call"], 0, 0) :
               X \in [0..(R - 1) -> Rows(m)], y \in [0..(R - 1) -> Labels(m)]} :
           R \in 0..MaxTrainRows, E \in 0..MaxTrainEpochs}

InitEpochs ==
    /\ \/ /\ \E d \in Draws(InitDraws(EpochsDense.h)) :
                tm = configure(tm_create(EpochsDense.h, d), EpochsDense.variant)
          /\ stm = NoMachine
          /\ call \in TrainCalls("tm_train", tm)
       \/ /\ \E d \in Draws(StmInitDraws(EpochsSparse.h)) :
                stm = configure(stm_create(EpochsSparse.h, d), EpochsSparse.variant)
          /\ tm = NoMachine
          /\ call \in TrainCalls("stm_train", stm)
    /\ sltm = NoMachine
    /\ loaded = NoMachine
    /\ file = <<>>
    /\ fb = NoFeedback
    /\ rows = 0
    /\ pred = NoPreds

\* calculate_clause_output(tm, X_row, 0)
TrainEvaluate ==
    /\ call.op \in {"tm_train", "stm_train"}
    /\ call.step = "evaluate"
    /\ IF call.op = "tm_train"
       THEN tm' = calculate_clause_output(tm, call.X[call.row], 0) /\ stm' = stm
       ELSE stm' = stm_calculate_clause_output(stm, call.X[call.row], 0) /\ tm' = tm
    /\ call' = [call EXCEPT !.step = "sum_votes"]
    /\ UNCHANGED <<sltm, loaded, file, fb, rows, pred>>

\* sum_votes(tm)
TrainSumVotes ==
    /\ call.op \in {"tm_train", "stm_train"}
    /\ call.step = "sum_votes"
    /\ IF call.op = "tm_train"
       THEN tm' = sum_votes(tm) /\ stm' = stm
       ELSE stm' = stm_sum_votes(stm) /\ tm' = tm
    /\ call' = [call EXCEPT !.step = "feedback"]
    /\ UNCHANGED <<sltm, loaded, file, fb, rows, pred>>

\* tm->calculate_feedback(tm, X_row, y_row), up to its first clause loop
TrainFeedback ==
    /\ call.op \in {"tm_train", "stm_train"}
    /\ call.step = "feedback"
    /\ \E u \in U32Draws :
          fb' = begin_feedback(IF call.op = "tm_train" THEN tm ELSE stm,
                               call.X[call.row], call.y[call.row], u)
    /\ call' = [call EXCEPT !.step = "in_feedback"]
    /\ UNCHANGED <<tm, stm, sltm, loaded, file, rows, pred>>

\* the feedback function returns: row++, epoch++
TrainRowDone ==
    /\ call.op \in {"tm_train", "stm_train"}
    /\ call.step = "in_feedback"
    /\ fb.phase = "done"
    /\ fb' = NoFeedback
    /\ rows' = rows + 1
    /\ call' = train_next(call)
    /\ UNCHANGED <<tm, stm, sltm, loaded, file, pred>>

NextEpochs ==
    \/ TrainEvaluate
    \/ TrainSumVotes
    \/ TrainFeedback
    \/ TmFeedbackPositive
    \/ TmSelectNegative
    \/ TmFeedbackNegative
    \/ StmFeedbackPositive
    \/ StmSelectNegative
    \/ StmFeedbackNegative
    \/ TrainRowDone

SpecEpochs == InitEpochs /\ [][NextEpochs]_vars

\* clause_output and votes of the machine in training are those of a clause
\* evaluation with skip_empty = 0 and of sum_votes on the row Xr
EvaluatedOn(Xr) ==
    IF call.op = "tm_train"
    THEN LET m == sum_votes(calculate_clause_output(tm, Xr, 0))
         IN tm.clause_output = m.clause_output /\ tm.votes = m.votes
    ELSE LET m == stm_sum_votes(stm_calculate_clause_output(stm, Xr, 0))
         IN stm.clause_output = m.clause_output /\ stm.votes = m.votes

\* C21: train processes the rows in a fixed order, without shuffling: with
\* epochs E and rows R it runs exactly E * R feedback invocations, ordered by
\* epoch (outer) then row (inner): invocation number n is on row n % R in
\* epoch n \div R, and it starts right after the clause evaluation with
\* skip_empty = 0 and sum_votes on that same row.
C21_TrainOrder ==
    /\ [][(call.step = "feedback" /\ call'.step = "in_feedback") =>
            /\ call.epoch < call.epochs /\ call.row < call.rows
            /\ rows = (call.epoch * call.rows) + call.row
            /\ fb'.X = call.X[rows % call.rows]
            /\ fb'.y = call.y[rows % call.rows]
            /\ EvaluatedOn(call.X[rows % call.rows])]_vars
    /\ [][(call.step = "evaluate" /\ call'.step = "sum_votes") => fb.phase = "idle"]_vars
    /\ [](call.step = "returned" => rows = call.epochs * call.rows)

\* a call with two epochs over two different rows has returned after four
\* feedback invocations
C21_TwoEpochsTwoRows ==
    /\ call.op \in {"tm_train", "stm_train"}
    /\ call.step = "returned"
    /\ call.epochs = 2 /\ call.rows = 2
    /\ call.X[0] # call.X[1]
    /\ rows = 4


-----------------------------------------------------------------------------
(* Specification SpecCreate: the constructors when malloc may fail.  The
   struct comes from malloc, so a pointer field holds whatever the memory
   held until the constructor assigns it; the free function of the machine
   passes every pointer field that is not NULL to free. *)

\* the pointer fields of the struct, in the order the constructor assigns them
pointer_fields(op) ==
    IF op = "stm_create"
    THEN <<"ta_state", "active_literals", "weights", "clause_output", "votes">>
    ELSE <<"ta_state", "weights", "clause_output", "votes">>

\* tm_create / stm_create / sltm_create when the malloc number fails_at fails
\* (0: the struct, i: pointer field i, beyond the last field: none), on a
\* struct whose memory holds junk[f] (NULL or anything else) in field f:
\* the fields assigned an allocated buffer, what tm_free / stm_free /
\* sltm_free passes to free, and what the constructor returns
create_outcome(op, fails_at, junk) ==
    LET fields == pointer_fields(op)
        n == Len(fields)
        allocated == {fields[i] : i \in 1..min(fails_at - 1, n)}
        pointer == [i \in 1..n |->
                      IF i < fails_at THEN "allocated"
                      ELSE IF i = fails_at THEN "NULL"
                      ELSE junk[fields[i]]]
    IN [op |-> op, fails_at |-> fails_at, junk |-> junk,
        allocated |-> allocated,
        freed |-> IF fails_at \in 1..n
                  THEN {fields[i] : i \in {j \in 1..n : pointer[j] # "NULL"}}
                  ELSE {},
        result |-> IF fails_at > n THEN "machine" ELSE "NULL"]

InitCreate ==
    /\ tm = NoMachine
    /\ stm = NoMachine
    /\ sltm = NoMachine
    /\ loaded = NoMachine
    /\ file = <<>>
    /\ fb = NoFeedback
    /\ rows = 0
    /\ pred = NoPreds
    /\ call = NoCall

\* tm_create(..)
TmCreate ==
    /\ call = NoCall
    /\ \E fails_at \in 0..5, junk \in [{"ta_state", "weights", "clause_output", "votes"}
                                          -> {"NULL", "garbage"}] :
          /\ call' = create_outcome("tm_create", fails_at, junk)
          /\ tm' = IF call'.result = "machine"
                   THEN tm_create(EpochsDense.h, [i \in 1..InitDraws(EpochsDense.h) |-> 0])
                   ELSE tm
    /\ UNCHANGED <<stm, sltm, loaded, file, fb, rows, pred>>

\* stm_create(..)
StmCreate ==
    /\ call = NoCall
    /\ \E fails_at \in 0..6,
          junk \in [{"ta_state", "active_literals", "weights", "clause_output", "votes"}
                       -> {"NULL", "garbage"}] :
          /\ call' = create_outcome("stm_create", fails_at, junk)
          /\ stm' = IF call'.result = "machine"
                    THEN stm_create(EpochsSparse.h,
                                    [i \in 1..StmInitDraws(EpochsSparse.h) |-> 0])
                    ELSE stm
    /\ UNCHANGED <<tm, sltm, loaded, file, fb, rows, pred>>

\* sltm_create(..)
SltmCreate ==
    /\ call = NoCall
    /\ \E fails_at \in 0..5, junk \in [{"ta_state", "weights", "clause_output", "votes"}
                                          -> {"NULL", "garbage"}] :
          /\ call' = create_outcome("sltm_create", fails_at, junk)
          /\ sltm' = IF call'.result = "machine" THEN sltm_create(EpochsDense.h) ELSE sltm
    /\ UNCHANGED <<tm, stm, loaded, file, fb, rows, pred>>

NextCreate ==
    \/ TmCreate
    \/ StmCreate
    \/ SltmCreate

SpecCreate == InitCreate /\ [][NextCreate]_vars

\* C22: if a buffer allocation fails inside tm_create, stm_create or
\* sltm_create, the constructor returns NULL and releases exactly the buffers
\* that were allocated before the failure: no pointer field that was never
\* assigned is passed to free, and no partially initialized machine is returned.
C22_FailedCreateFreesItsBuffers ==
    (call.op \in {"tm_create", "stm_create", "sltm_create"}
        /\ call.fails_at <= Len(pointer_fields(call.op)))
    => /\ call.result = "NULL"
       /\ call.freed = call.allocated
       /\ tm = NoMachine /\ stm = NoMachine /\ sltm = NoMachine


\* C23: prng_seed(0) leaves the generator in the state prng_seed(0xDEADBEEF)
\* leaves it in, so a machine created with seed 0 emits the random sequence
\* of one created with seed 0xDEADBEEF: the two hold the same initial TA
\* states and the same generator state after creation and after every row.
\* Every nonzero seed is stored unchanged: the generator of a machine just
\* created is InitDraws steps away from the seed itself.
C23_ZeroSeedIsDeadBeef ==
    call.op = "tm_train" =>
        /\ (call.seed = U32(0, 0) /\ call.seed2 = U32(57005, 48879)) =>
              (loaded.rng = tm.rng /\ loaded.ta_state = tm.ta_state
                  /\ loaded.weights = tm.weights)
        /\ rows = 0 =>
              tm.rng = prng_skip(IF call.seed = U32(0, 0) THEN U32(57005, 48879)
                                 ELSE call.seed,
                                 tm.num_clauses * (tm.num_literals + tm.num_classes))

\* a run seeded with 0 next to a run seeded with 0xDEADBEEF, both past their
\* second row with the generator at the same state, which is not 0
C23_ZeroSeededRun ==
    /\ call.op = "tm_train"
    /\ call.seed = U32(0, 0) /\ call.seed2 = U32(57005, 48879)
    /\ rows >= 2
    /\ tm.rng = loaded.rng
    /\ tm.rng # U32(0, 0)


-----------------------------------------------------------------------------
(* Specification SpecList: ta_state_insert and ta_state_remove on one linked
   list, called with prev = NULL (0) or prev = any node of the list.  call
   holds the arguments, the list before the call (before), the list after it
   (list) and *result. *)

MaxLen == 3

\* the ta_ids and states the nodes carry
ListIds == 0..2
ListStates == {-3, 3}

InitList ==
    /\ call = [op |-> "none", list |-> <<>>, before |-> <<>>, prev |-> 0,
               ta_id |-> 0, ta_state |-> 0, result |-> 0]
    /\ tm = NoMachine
    /\ stm = NoMachine
    /\ sltm = NoMachine
    /\ loaded = NoMachine
    /\ file = <<>>
    /\ fb = NoFeedback
    /\ rows = 0
    /\ pred = NoPreds

\* ta_state_insert(&head, prev, ta_id, ta_state, &result)
ListInsert ==
    /\ Len(call.list) < MaxLen
    /\ \E prev \in 0..Len(call.list), ta_id \in ListIds, ta_state \in ListStates :
          LET r == ta_state_insert(call.list, prev, ta_id, ta_state)
          IN call' = [op |-> "ta_state_insert", list |-> r.list, before |-> call.list,
                      prev |-> prev, ta_id |-> ta_id, ta_state |-> ta_state,
                      result |-> r.result]
    /\ UNCHANGED <<tm, stm, sltm, loaded, file, fb, rows, pred>>

\* ta_state_remove(&head, prev, &result), *result being NULL before the call
ListRemove ==
    /\ \E prev \in 0..Len(call.list) :
          LET r == ta_state_remove(call.list, prev, 0)
          IN call' = [op |-> "ta_state_remove", list |-> r.list, before |-> call.list,
                      prev |-> prev, ta_id |-> 0, ta_state |-> 0, result |-> r.result]
    /\ UNCHANGED <<tm, stm, sltm, loaded, file, fb, rows, pred>>

NextList ==
    \/ ListInsert
    \/ ListRemove

SpecList == InitList /\ [][NextList]_vars

\* C24: ta_state_insert(head, prev, id, state) puts the new node right after
\* prev, or at the head of the list when prev is NULL (also when the list is
\* empty); every node already in the list keeps its ta_id, its state and its
\* relative order, and the list grows by exactly one node.
C24_InsertAfterPrev ==
    call.op = "ta_state_insert" =>
        LET at == call.prev + 1
        IN /\ Len(call.list) = Len(call.before) + 1
           /\ call.list[at] = [ta_id |-> call.ta_id, ta_state |-> call.ta_state]
           /\ call.result = at
           /\ \A i \in 1..Len(call.before) :
                 call.before[i] = call.list[IF i < at THEN i ELSE i + 1]

\* a node was inserted between two nodes of a list
C24_InsertedBetween ==
    /\ call.op = "ta_state_insert"
    /\ Len(call.before) = 2
    /\ call.prev = 1
    /\ call.list[1] = call.before[1]
    /\ call.list[2].ta_id = call.ta_id
    /\ call.list[3] = call.before[2]
    /\ call.before[1] # call.before[2]

\* C25: ta_state_remove(head, prev, result) removes exactly the node that
\* follows prev, or the head node when prev is NULL, and leaves all other
\* nodes and their order unchanged; it changes nothing when the list is empty
\* or when prev is the last node, and removing the only node leaves the head
\* NULL.
C25_RemoveAfterPrev ==
    call.op = "ta_state_remove" =>
        IF Len(call.before) = 0 \/ call.prev = Len(call.before)
        THEN call.list = call.before
        ELSE /\ Len(call.list) = Len(call.before) - 1
             /\ \A i \in 1..Len(call.list) :
                   call.list[i] = call.before[IF i <= call.prev THEN i ELSE i + 1]
             /\ Len(call.before) = 1 => call.list = <<>>

\* the middle node of a list of three different nodes was removed
C25_RemovedTheMiddle ==
    /\ call.op = "ta_state_remove"
    /\ Len(call.before) = 3
    /\ call.prev = 1
    /\ call.before[1] # call.before[2] /\ call.before[2] # call.before[3]
    /\ call.list = <<call.before[1], call.before[3]>>


-----------------------------------------------------------------------------
(* Specification SpecFeedback: machines with more than one candidate class,
   dense and sparse, trained row by row on every label: bin-vector machines
   with two classes and class-index machines with three. *)

FeedbackDense ==
    {Cfg(H(2, 1, 1, 1, 1, -2, 0, 2), "bin_vector"),
     Cfg(H(3, 1, 1, 1, 1, -2, 0, 2), "class_idx")}

FeedbackSparse ==
    {Cfg(H(2, 1, 1, 1, 127, -127, 0, 2), "bin_vector"),
     Cfg(H(3, 1, 1, 1, 127, -127, 0, 2), "class_idx")}

InitFeedback ==
    /\ \/ /\ \E c \in FeedbackDense : \E d \in Draws(InitDraws(c.h)) :
                tm = configure(tm_create(c.h, d), c.variant)
          /\ stm = NoMachine
       \/ /\ \E c \in FeedbackSparse : \E d \in Draws(StmInitDraws(c.h)) :
                stm = configure(stm_create(c.h, d), c.variant)
          /\ tm = NoMachine
    /\ file = <<>>
    /\ fb = NoFeedback
    /\ rows = 0
    /\ pred = NoPreds
    /\ sltm = NoMachine
    /\ loaded = NoMachine
    /\ call = NoCall

NextFeedback ==
    \/ TmTrainRow
    \/ TmFeedbackPositive
    \/ TmSelectNegative
    \/ TmFeedbackNegative
    \/ TmRowDone
    \/ StmTrainRow
    \/ StmFeedbackPositive
    \/ StmSelectNegative
    \/ StmFeedbackNegative
    \/ StmRowDone

SpecFeedback == InitFeedback /\ [][NextFeedback]_vars

\* the machine under training
Trainee == IF tm # NoMachine THEN tm ELSE stm

\* C26: in both feedback variants (class-index and binary-vector) the
\* positive half of a row gates every clause with
\* p+ = (T - votes[c+]) / (2T), c+ being the positive class selected for the
\* row.
C26_PositiveProbability ==
    fb.phase = "positive" =>
        fb.p = Prob(Trainee.threshold - clip(Trainee.votes[fb.class_id], Trainee.threshold),
                    2 * Trainee.threshold)


\* the weight clip(votes[c], T) + T a class carries in the choice of a class
CandidateWeight(m, c) == clip(m.votes[c], m.threshold) + m.threshold

\* C27: the classes that receive feedback come from the right candidate set:
\* with class-index labels the negative class is never the label y, with
\* bin-vector labels the positive class has y[c] = 1 and the negative class
\* y[c] = 0; a half whose candidate weights sum to zero applies no feedback to
\* any clause (the machine is in a clause loop only when some candidate of
\* that half has a weight above zero).
C27_FeedbackCandidates ==
    LET m == Trainee
        classes == 0..(m.num_classes - 1)
    IN /\ (fb.phase = "negative" /\ m.calculate_feedback = "class_idx") =>
             /\ fb.class_id # fb.y
             /\ \E c \in classes \ {fb.y} : CandidateWeight(m, c) > 0
       /\ (fb.phase = "negative" /\ m.calculate_feedback = "bin_vector") =>
             /\ fb.y[fb.class_id] = 0
             /\ \E c \in classes : fb.y[c] = 0 /\ CandidateWeight(m, c) > 0
       /\ (fb.phase = "positive" /\ m.calculate_feedback = "bin_vector") =>
             /\ fb.y[fb.class_id] = 1
             /\ \E c \in classes : fb.y[c] = 1 /\ CandidateWeight(m, c) > 0

\* a bin-vector row whose label has a class set, of weight zero: the positive
\* half was skipped and the negative class is being chosen
C27_PositiveHalfSkipped ==
    /\ fb.phase = "select_negative"
    /\ fb.kernel = "begin"
    /\ Trainee.calculate_feedback = "bin_vector"
    /\ \E c \in 0..(Trainee.num_classes - 1) : fb.y[c] = 1
    /\ \A c \in 0..(Trainee.num_classes - 1) :
          fb.y[c] = 1 => CandidateWeight(Trainee, c) = 0


-----------------------------------------------------------------------------
(* Insertion of automata in a sparse machine *)

\* the ta_ids materialized in a clause's list
TaIds(list) == {list[j].ta_id : j \in 1..Len(list)}

\* the active-literal bit of a literal for a class
IsActiveLiteral(m, class_id, literal_id) ==
    BitAnd(m.active_literals[AlIdx(m, class_id, literal_id)], BitMask(literal_id)) # 0

\* the list is in ascending ta_id order
Ordered(list) == \A j \in 1..(Len(list) - 1) : list[j].ta_id < list[j + 1].ta_id

\* C28: sparse Type II inserts a new TA for a non-materialized (literal l,
\* polarity p) exactly when p = X[l] and the active-literal bit of l is set
\* for the feedback class; the new entry has state sparse_init_state and
\* sits at its ordered position; no TA is inserted for a non-materialized
\* (l, p) with p # X[l].
C28_TypeIIInserts ==
    [][(stm # NoMachine /\ fb.phase \in {"positive", "negative"} /\ fb'.kernel = "2") =>
          LET before == stm.ta_state[fb.clause_id]
              after == stm'.ta_state[fb.clause_id]
          IN /\ \A i \in (0..(2 * stm.num_literals - 1)) \ TaIds(before) :
                   (i \in TaIds(after)) <=>
                      /\ i % 2 = fb.X[i \div 2]
                      /\ IsActiveLiteral(stm, fb.class_id, i \div 2)
             /\ \A j \in 1..Len(after) :
                   after[j].ta_id \notin TaIds(before) =>
                      after[j].ta_state = stm.sparse_init_state
             /\ Ordered(before) => Ordered(after)]_vars


\* C29: in a sparse machine built by stm_create, TAs are created only under
\* Type II: Type I a and Type I b never add an entry to any clause, and
\* every entry ever inserted belongs to a literal whose active-literal bit
\* was already set for the feedback class at the moment of insertion.
C29_CreatedOnlyByTypeII ==
    [][(stm # NoMachine /\ stm' # NoMachine) =>
          \A k \in 0..(stm.num_clauses - 1) :
             \A i \in TaIds(stm'.ta_state[k]) \ TaIds(stm.ta_state[k]) :
                /\ fb.phase \in {"positive", "negative"}
                /\ fb'.kernel = "2"
                /\ k = fb.clause_id
                /\ IsActiveLiteral(stm, fb.class_id, i \div 2)]_vars

\* a machine built by stm_create (the only machines with max_state = 1): the
\* last call was Type II and left an entry in the clause, on a literal that
\* is active for the feedback class
C29_InsertedByTypeII ==
    /\ stm # NoMachine
    /\ stm.max_state = 1
    /\ fb.phase \in {"negative", "done"}
    /\ fb.kernel = "2"
    /\ \E j \in 1..Len(stm.ta_state[0]) :
          /\ stm.ta_state[0][j].ta_state = stm.sparse_init_state
          /\ IsActiveLiteral(stm, fb.class_id, stm.ta_state[0][j].ta_id \div 2)


-----------------------------------------------------------------------------
(* The weight update of Type II, dense and sparse (SpecTrain) *)

Magnitude(w) == IF w >= 0 THEN w ELSE -w

-----------------------------------------------------------------------------
(* Specification SpecPunish: a sparse machine whose sparse_init_state equals
   min_state (max_state = 35, min_state = -35: mid_state = 0), built by
   stm_create or met after its first Type I a (both literals active, no TA
   materialized yet), trained row by row. *)

PunishConfig == Cfg(H(1, 1, 2, 1, 35, -35, 0, 2), "bin_vector")

InitPunish ==
    /\ tm = NoMachine
    /\ \/ \E d \in Draws(StmInitDraws(PunishConfig.h)) :
             stm = configure(stm_create(PunishConfig.h, d), PunishConfig.variant)
       \/ stm \in {m \in MidTraining(PunishConfig) : m.ta_state[0] = <<>>}
    /\ file = <<>>
    /\ fb = NoFeedback
    /\ rows = 0
    /\ pred = NoPreds
    /\ sltm = NoMachine
    /\ loaded = NoMachine
    /\ call = NoCall

NextPunish ==
    \/ StmTrainRow
    \/ StmFeedbackPositive
    \/ StmSelectNegative
    \/ StmFeedbackNegative
    \/ StmRowDone

SpecPunish == InitPunish /\ [][NextPunish]_vars

\* a step of a sparse clause loop in which stm_apply_feedback ran the kernel
SparseKernelStep(kernel) ==
    /\ stm # NoMachine
    /\ fb.phase \in {"positive", "negative"}
    /\ fb'.kernel = kernel

\* whether the kernel punishes the j-th entry of the list: Type I b every
\* entry, Type I a the entries with p = X[l]
IsPunished(kernel, list, j, Xr) ==
    kernel = "1b" \/ list[j].ta_id % 2 = Xr[list[j].ta_id \div 2]

\* the position, among the draws of the kernel, of the draw of entry j: every
\* entry takes one draw, but for the rewards of Type I a with boost = 1
DrawOf(m, kernel, list, j, Xr) ==
    Cardinality({i \in 1..j : IsPunished(kernel, list, i, Xr)
                              \/ m.boost_true_positive_feedback # 1})

\* the entries of a list with the given ta_id
EntriesOf(list, ta_id) == {i \in 1..Len(list) : list[i].ta_id = ta_id}

\* C31: sparse punishment in Type I a and Type I b decrements a materialized
\* TA by exactly 1 when its PRNG draw is <= s_inv and leaves it unchanged
\* otherwise, and it saturates: a TA whose state equals min_state is never
\* decremented.
C31_SparsePunishSaturates ==
    [][\A kernel \in {"1a", "1b"} : SparseKernelStep(kernel) =>
          LET before == stm.ta_state[fb.clause_id]
              after == stm'.ta_state[fb.clause_id]
          IN \A j \in 1..Len(before) : IsPunished(kernel, before, j, fb.X) =>
                LET state == before[j].ta_state
                    draw == fb'.draws[DrawOf(stm, kernel, before, j, fb.X)]
                    expected == IF FloatLE(draw, stm.s_inv) /\ state # stm.min_state
                                THEN state - 1 ELSE state
                IN /\ \A i \in EntriesOf(after, before[j].ta_id) :
                         after[i].ta_state = expected
                   /\ EntriesOf(after, before[j].ta_id) = {} =>
                         expected < stm.sparse_min_state]_vars


-----------------------------------------------------------------------------
(* Specification SpecKernels: the dense and the sparse feedback kernels,
   called on the same logical state with the same PRNG draws.  One clause
   over two literals and one class; every TA of the dense clause is
   materialized in the sparse clause with the same state, at least 30 above
   sparse_min_state. *)

KernelConfigs ==
    {H(1, 1, 2, 1, 127, -127, 0, 2),
     H(1, 1, 2, 1, 127, -127, 1, 2),
     H(1, 1, 2, 1, 10, -10, 0, 2)}

\* the states a TA starts a kernel with: around mid_state, at max_state and,
\* where min_state lies far above sparse_min_state, at min_state
KernelStates(h) ==
    LET mid == Int8(CDiv(h.max_state + h.min_state, 2))
    IN {mid - 1, mid, h.max_state} \cup
       (IF h.min_state >= mid - 10 THEN {h.min_state} ELSE {})

\* the sparse machine of configuration h whose clause 0 holds every TA of
\* the dense clause, with the dense states and weights
FullyMaterialized(h, dense) ==
    LET m == stm_create(h, [i \in 1..StmInitDraws(h) |-> 0])
    IN [m EXCEPT !.weights = dense.weights,
                 !.ta_state = [clause_id \in 0..(m.num_clauses - 1) |->
                     list_of(m, dense.ta_state, [at \in DOMAIN dense.ta_state |-> TRUE],
                             clause_id, m.num_literals * 2)]]

InitKernels ==
    /\ \E h \in KernelConfigs :
          \E st \in [0..((h.num_clauses * h.num_literals * 2) - 1) -> KernelStates(h)],
             w \in {-1, 1} :
             /\ tm = [tm_create(h, [i \in 1..InitDraws(h) |-> 0])
                         EXCEPT !.ta_state = st,
                                !.weights = [i \in 0..((h.num_clauses * h.num_classes) - 1) |-> w]]
             /\ stm = FullyMaterialized(h, tm)
    /\ sltm = NoMachine
    /\ loaded = NoMachine
    /\ file = <<>>
    /\ fb = NoFeedback
    /\ rows = 0
    /\ pred = NoPreds
    /\ call = NoCall

\* what a pair of kernel calls leaves: the machines and, in call, the
\* arguments and the number of draws each kernel left unconsumed
KernelCalled(op, Xr, d, dense, sparse) ==
    /\ tm' = dense.m
    /\ stm' = sparse.m
    /\ call' = [op |-> op, X |-> Xr, d |-> d,
                dense_left |-> Len(dense.d), sparse_left |-> Len(sparse.d)]
    /\ UNCHANGED <<sltm, loaded, file, fb, rows, pred>>

\* type_1a_feedback(tm, X, 0, 0) and type_1a_feedback(stm, X, 0, 0)
TypeIaBoth ==
    /\ call = NoCall
    /\ \E Xr \in Rows(tm), d \in Draws(2 * tm.num_literals) :
          KernelCalled("type_1a_feedback", Xr, d,
                       type_1a_feedback(tm, Xr, 0, 0, d),
                       stm_type_1a_feedback(stm, Xr, 0, 0, d))

\* type_1b_feedback(tm, 0) and type_1b_feedback(stm, 0)
TypeIbBoth ==
    /\ call = NoCall
    /\ \E Xr \in Rows(tm), d \in Draws(2 * tm.num_literals) :
          KernelCalled("type_1b_feedback", Xr, d,
                       type_1b_feedback(tm, 0, d),
                       stm_type_1b_feedback(stm, 0, d))

\* type_2_feedback(tm, X, 0, 0) and type_2_feedback(stm, X, 0, 0)
TypeIIBoth ==
    /\ call = NoCall
    /\ \E Xr \in Rows(tm), d \in Draws(2 * tm.num_literals) :
          KernelCalled("type_2_feedback", Xr, d,
                       type_2_feedback(tm, Xr, 0, 0, d),
                       stm_type_2_feedback(stm, Xr, 0, 0, d))

NextKernels ==
    \/ TypeIaBoth
    \/ TypeIbBoth
    \/ TypeIIBoth

SpecKernels == InitKernels /\ [][NextKernels]_vars

\* the sparse clause 0 holds exactly the TAs of the dense clause 0, with the
\* dense states
SameStates ==
    /\ Len(stm.ta_state[0]) = 2 * tm.num_literals
    /\ \A i \in 0..((2 * tm.num_literals) - 1) :
          /\ stm.ta_state[0][i + 1].ta_id = i
          /\ stm.ta_state[0][i + 1].ta_state = tm.ta_state[i]

\* C32: dense and sparse training have identical semantics: from the same
\* logical state (equal weights, every dense TA materialized in the sparse
\* clause with the same state, far enough above sparse_min_state that
\* nothing is pruned) and the same PRNG state, the same kernel (Type I a,
\* Type I b or Type II) for the same clause, class, X and boost setting
\* leaves equal TA states, equal weights and equal PRNG state in both
\* machines.
C32_KernelsAgree ==
    call.op \in {"type_1a_feedback", "type_1b_feedback", "type_2_feedback"} =>
        /\ SameStates
        /\ stm.weights = tm.weights
        /\ call.sparse_left = call.dense_left


-----------------------------------------------------------------------------
(* The header of a model file, checked under SpecPersist *)

HeaderFields ==
    {"threshold", "num_literals", "num_clauses", "num_classes", "max_state",
     "min_state", "boost_true_positive_feedback", "s"}

\* C33: tm_save followed by tm_load restores every header hyperparameter to
\* the value the saved machine had: threshold, num_literals, num_clauses,
\* num_classes, max_state, min_state, boost_true_positive_feedback and s,
\* where the 8-byte s field of the file holds the machine's s as a 64-bit
\* float.
C33_HeaderRestored ==
    /\ file # <<>> => DoubleToFloat(ReadU32(file, 20), ReadU32(file, 24)) = tm.s
    /\ loaded # NoMachine => \A f \in HeaderFields : loaded[f] = tm[f]


-----------------------------------------------------------------------------
(* Specification SpecSparseSave: a sparse machine is constructed, trained row
   by row and saved with stm_save. *)

\* the (ta_id, state) pairs of a list in list order: fwrite of the uint32_t
\* ta_id and of the int8_t ta_state of every node
RECURSIVE WriteNodes(_, _)
WriteNodes(list, curr_ptr) ==
    IF curr_ptr = 0 THEN <<>>
    ELSE U32LE(list[curr_ptr].ta_id) \o I8(list[curr_ptr].ta_state)
         \o WriteNodes(list, NextPtr(list, curr_ptr))

\* uint32_t delim = UINT_MAX
Delim == <<255, 255, 255, 255>>

\* the clause loop of stm_save, from clause_id on
RECURSIVE WriteClauses(_, _)
WriteClauses(m, clause_id) ==
    IF clause_id >= m.num_clauses THEN <<>>
    ELSE WriteNodes(m.ta_state[clause_id], Head0(m.ta_state[clause_id])) \o Delim
         \o WriteClauses(m, clause_id + 1)

\* stm_save: the header (fwrite(&stm->s, sizeof(double)) writes the float s
\* and the y_size that follows it in the struct), the weights, the clauses
stm_save(m) ==
    U32LE(m.threshold) \o U32LE(m.num_literals) \o U32LE(m.num_clauses)
    \o U32LE(m.num_classes) \o I8(m.max_state) \o I8(m.min_state)
    \o I8(m.boost_true_positive_feedback)
    \o U32LE(FloatBits(m.s)) \o U32LE(m.y_size)
    \o WriteI16s(m.weights, m.num_clauses * m.num_classes)
    \o WriteClauses(m, 0)

\* stm_save(stm, filename), between two rows
StmSave ==
    /\ stm # NoMachine
    /\ fb.phase = "idle"
    /\ file = <<>>
    /\ file' = stm_save(stm)
    /\ UNCHANGED <<tm, stm, sltm, loaded, fb, rows, pred, call>>

NextSparseSave ==
    \/ StmTrainRow
    \/ StmFeedbackPositive
    \/ StmSelectNegative
    \/ StmFeedbackNegative
    \/ StmRowDone
    \/ StmSave

SpecSparseSave == InitSparse /\ [][NextSparseSave]_vars

\* the bytes of the included TAs (state >= mid_state) of a list, in list order
RECURSIVE IncludedPairs(_, _, _)
IncludedPairs(m, list, j) ==
    IF j > Len(list) THEN <<>>
    ELSE (IF list[j].ta_state >= m.mid_state
          THEN U32LE(list[j].ta_id) \o I8(list[j].ta_state) ELSE <<>>)
         \o IncludedPairs(m, list, j + 1)

RECURSIVE IncludedClauses(_, _)
IncludedClauses(m, clause_id) ==
    IF clause_id >= m.num_clauses THEN <<>>
    ELSE IncludedPairs(m, m.ta_state[clause_id], 1) \o Delim
         \o IncludedClauses(m, clause_id + 1)

\* C34: stm_save writes, for each clause in order, one (ta_id, state) pair
\* for each included TA of the clause (state >= mid_state) and only for
\* those, in ascending ta_id, followed by exactly one sentinel
\* ta_id = UINT32_MAX, so the file holds num_clauses sentinels.
C34_SavesIncludedTAs ==
    [][file' # file =>
          LET body == HeaderLen + (2 * stm.num_clauses * stm.num_classes)
          IN /\ SubSeq(file', body + 1, Len(file')) = IncludedClauses(stm, 0)
             /\ \A k \in 0..(stm.num_clauses - 1) : Ordered(stm.ta_state[k])]_vars


-----------------------------------------------------------------------------
(* The freshly created dense machine, checked under SpecFeedback *)

\* SpecFeedback starts from tm_create and only trains: the dense machine is
\* as tm_create left it until the first row starts
JustCreated == tm # NoMachine /\ rows = 0 /\ fb = NoFeedback

\* the literals of clause_id that the clause includes in either polarity
IncludedForms(m, clause_id) ==
    {<<l, p>> \in (0..(m.num_literals - 1)) \X {0, 1} :
        action(m.ta_state[TaIdx(m, clause_id, l, p)], m.mid_state) = 1}

\* C35: after tm_create, for every (clause, literal) the two TA states are
\* mid_state - 1 and mid_state in one of the two orders, so exactly one
\* polarity of every literal is included, no clause is empty, and every weight
\* is +1 or -1.
C35_CreatedMachine ==
    JustCreated =>
       /\ \A k \in 0..(tm.num_clauses - 1) :
             /\ \A l \in 0..(tm.num_literals - 1) :
                   /\ <<tm.ta_state[TaIdx(tm, k, l, 0)], tm.ta_state[TaIdx(tm, k, l, 1)]>>
                         \in {<<tm.mid_state - 1, tm.mid_state>>,
                              <<tm.mid_state, tm.mid_state - 1>>}
                   /\ Cardinality({f \in IncludedForms(tm, k) : f[1] = l}) = 1
             /\ IncludedForms(tm, k) # {}
             /\ clause_loop(tm, [l \in 0..(tm.num_literals - 1) |-> 0], k, 0, TRUE).empty_clause
                   = FALSE
       /\ \A i \in DOMAIN tm.weights : tm.weights[i] \in {1, -1}

\* a created machine whose literal 0 of clause 0 took the second order, with
\* weights of both signs
C35_SecondOrderCreated ==
    /\ JustCreated
    /\ tm.ta_state[TaIdx(tm, 0, 0, 0)] = tm.mid_state
    /\ tm.ta_state[TaIdx(tm, 0, 0, 1)] = tm.mid_state - 1
    /\ \E i, j \in DOMAIN tm.weights : tm.weights[i] = 1 /\ tm.weights[j] = -1


-----------------------------------------------------------------------------
(* The derived sparse bounds, checked under SpecSparse *)

\* C36: for every valid hyperparameter choice the sparse machine stores
\* sparse_min_state = mid_state - 40 and sparse_init_state = mid_state - 35 as
\* exact integers (no 8-bit wrap-around), so a newly inserted TA is excluded
\* (sparse_init_state < mid_state) and survives at least five punishments
\* before it is pruned.
C36_SparseBoundsExact ==
    stm # NoMachine =>
       /\ stm.sparse_min_state = stm.mid_state - 40
       /\ stm.sparse_init_state = stm.mid_state - 35
       /\ stm.sparse_init_state < stm.mid_state
       /\ stm.sparse_init_state - 5 >= stm.sparse_min_state


-----------------------------------------------------------------------------
(* Inference as a read-only operation, checked under SpecPersist *)

\* everything a machine holds except the two scratch buffers of inference
Learned(m) == [f \in (DOMAIN m) \ {"clause_output", "votes"} |-> m[f]]

\* C37: predict is read-only on the learned model: tm_predict, stm_predict and
\* sltm_predict leave every TA state, every weight, every active-literal bit
\* and the PRNG state unchanged, for any number of rows; they overwrite only
\* clause_output, votes and the caller's y_pred.
C37_PredictReadOnly ==
    [][/\ tm # NoMachine => Learned(tm') = Learned(tm)
       /\ stm # NoMachine => Learned(stm') = Learned(stm)
       /\ sltm # NoMachine => Learned(sltm') = Learned(sltm)
       /\ pred' # pred => UNCHANGED <<file, loaded, fb, rows, call>>]_vars

\* the three machines have each predicted a row, and a clause of each fired
C37_AllThreePredicted ==
    /\ pred.tm # NoPred /\ pred.stm # NoPred /\ pred.sltm # NoPred
    /\ \E k \in DOMAIN tm.clause_output : tm.clause_output[k] = 1
    /\ \E k \in DOMAIN stm.clause_output : stm.clause_output[k] = 1
    /\ \E k \in DOMAIN sltm.clause_output : sltm.clause_output[k] = 1
    /\ \E c \in DOMAIN tm.votes : tm.votes[c] # 0


-----------------------------------------------------------------------------
(* The choice of the negative class, checked under SpecFeedback *)

\* C38: negative-class sampling is proportional to the weights: with
\* class-index labels, a candidate class whose weight clip(votes[c], T) + T is
\* 0 (votes[c] = -T) is never selected as the negative class when another
\* candidate has a positive weight, whatever value the PRNG draw takes.
C38_ZeroWeightNeverPicked ==
    (/\ tm # NoMachine
     /\ tm.calculate_feedback = "class_idx"
     /\ fb.phase = "negative"
     /\ \E c \in (0..(tm.num_classes - 1)) \ {fb.y} : CandidateWeight(tm, c) > 0)
    => CandidateWeight(tm, fb.class_id) > 0


-----------------------------------------------------------------------------
(* The gate of the positive clause loop, checked under SpecFeedback *)

\* C39: when votes[c+] equals T, so that p+ = 0, no clause receives
\* positive-class feedback in that row, whatever the PRNG emits (every
\* iteration of the positive loop ends without a call of tm_apply_feedback).
C39_NoPositiveFeedbackAtThreshold ==
    [][(/\ tm # NoMachine
        /\ tm.calculate_feedback = "class_idx"
        /\ fb.phase = "positive"
        /\ tm.votes[fb.y] = tm.threshold)
       => fb'.kernel = "skip"]_vars


-----------------------------------------------------------------------------
(* The traversal of the sparse Type I kernels, checked under SpecSparse *)

\* the state one visit of the kernel leaves in the j-th entry of the list,
\* given the draw the visit takes
VisitedOnce(m, kernel, list, j, Xr, draw) ==
    IF IsPunished(kernel, list, j, Xr)
    THEN stm_punish(m, list[j].ta_state, draw)
    ELSE stm_reward(m, list[j].ta_state,
             Bool(m.boost_true_positive_feedback = 1 \/ FloatLE(draw, m.s_min1_inv)))

\* C40: in one sparse Type I a or Type I b call on a clause, every TA
\* materialized at entry is processed exactly once, in ascending ta_id, also
\* when earlier entries are removed during the same traversal: the k-th draw
\* of the call goes to the k-th entry that takes one, every entry ends in the
\* state one visit with its own draw leaves (or is removed when that state is
\* below sparse_min_state), no entry appears, and the call takes as many draws
\* as there were entries to take one.
C40_EveryEntryVisitedOnce ==
    [][\A kernel \in {"1a", "1b"} : SparseKernelStep(kernel) =>
          LET before == stm.ta_state[fb.clause_id]
              after == stm'.ta_state[fb.clause_id]
              n == Len(before)
              takes(j) == IsPunished(kernel, before, j, fb.X)
                          \/ stm.boost_true_positive_feedback # 1
          IN /\ Len(fb'.draws) = Cardinality({j \in 1..n : takes(j)})
             /\ TaIds(after) \subseteq TaIds(before)
             /\ Ordered(after)
             /\ \A j \in 1..n :
                   LET at == DrawOf(stm, kernel, before, j, fb.X)
                       draw == IF takes(j) THEN fb'.draws[at] ELSE 0
                       expected == VisitedOnce(stm, kernel, before, j, fb.X, draw)
                       left == EntriesOf(after, before[j].ta_id)
                   IN IF IsPunished(kernel, before, j, fb.X)
                         /\ expected < stm.sparse_min_state
                      THEN left = {}
                      ELSE /\ Cardinality(left) = 1
                           /\ \A i \in left : after[i].ta_state = expected]_vars

\* a Type I call on a clause that held every TA took one draw for each of
\* them, removed the first and left others, behind the removed one
C40_RemovedDuringTraversal ==
    /\ stm # NoMachine
    /\ stm.num_clauses = 1
    /\ fb.phase \in {"positive", "select_negative", "negative", "done"}
    /\ fb.kernel \in {"1a", "1b"}
    /\ stm.boost_true_positive_feedback = 0
    /\ Len(fb.draws) = 2 * stm.num_literals
    /\ Len(stm.ta_state[0]) > 0
    /\ Len(stm.ta_state[0]) < 2 * stm.num_literals
    /\ stm.ta_state[0][1].ta_id > 0

====
